---------------------------- MODULE Spec2Model ----------------------------
(***************************************************************************)
(* Course scheduler: the allocation engine (scheduleEngine.js), the        *)
(* calendar rules (timeSlots.js) and the quarter calculator                *)
(* (quarterUtils.js, April-start financial year).                          *)
(*                                                                         *)
(* A JavaScript Date at local midnight is modelled by its day number       *)
(* (days since 1970-01-01); a "HH:MM" string by the pair <<HH, MM>>; a     *)
(* "yyyy-MM-dd" key by the triple <<yyyy, MM, dd>>; a course title by the  *)
(* sequence of its words.                                                  *)
(***************************************************************************)
EXTENDS Integers, Sequences, FiniteSets, TLC

\* ------------------------------------------------------------------ bounds

\* Longest course list handed to generateSchedule.
MaxCourses == 2

\* Largest number of dates in a grid of the statistics specification.
MaxStatDates == 3

\* Longest quarter, in weekdays, of the two-slot scenario.
MaxScenarioDays == 10

\* Longest course list handed to generateSchedule twice in a row.
MaxRepeatedCourses == 1

\* Longest course list of the runs checked for termination.
MaxFairCourses == 2

\* Longest course list of the full-year runs.
MaxYearCourses == 1

\* The longest course list that is then run again with one more course.
MaxPrefixCourses == 1

\* ---------------------------------------------------------- Date (built-in)

\* new Date(y, monthIndex, d): day number of a civil date, monthIndex 0-based.
NewDate(y, monthIndex, d) ==
  LET m   == monthIndex + 1
      yy  == IF m <= 2 THEN y - 1 ELSE y
      era == yy \div 400
      yoe == yy - era * 400
      mp  == (m + 9) % 12
      doy == (153 * mp + 2) \div 5 + d - 1
      doe == yoe * 365 + yoe \div 4 - yoe \div 100 + doy
  IN  era * 146097 + doe - 719468

\* <<year, month (1-based), day of month>> of a day number.
Civil(z) ==
  LET zz  == z + 719468
      era == zz \div 146097
      doe == zz - era * 146097
      yoe == (doe - doe \div 1460 + doe \div 36524 - doe \div 146096) \div 365
      doy == doe - (365 * yoe + yoe \div 4 - yoe \div 100)
      mp  == (5 * doy + 2) \div 153
      d   == doy - (153 * mp + 2) \div 5 + 1
      m   == IF mp < 10 THEN mp + 3 ELSE mp - 9
      y   == yoe + era * 400
  IN  << IF m <= 2 THEN y + 1 ELSE y, m, d >>

\* date.getDay(): 0 = Sunday .. 6 = Saturday (1970-01-01 was a Thursday).
GetDay(date) == (date + 4) % 7

\* date.getFullYear()
GetFullYear(date) == Civil(date)[1]

\* format(date, "yyyy-MM-dd")
FormatDate(date) == Civil(date)

\* A week addition that moves by fortnights.
AddFortnights(date, n) == date + 14 * n

\* Weeks added only to dates before 1 June; a later date stays as it is.
AddWeeksBeforeJune(date, n) ==
  IF date >= NewDate(2025, 5, 1) THEN date ELSE date + 7 * n

\* addDays(date, n) and addWeeks(date, n) of date-fns
AddDays(date, n) == date + n

AddWeeks(date, n) == AddDays(date, 7 * n)

\* endOfMonth(new Date(y, monthIndex, 1)), as a day number
EndOfMonth(y, monthIndex) ==
  IF monthIndex = 11 THEN NewDate(y + 1, 0, 1) - 1
  ELSE NewDate(y, monthIndex + 1, 1) - 1

\* ------------------------------------------------------- time strings

\* time.split(":").map(Number)
SplitTime(time) == << time[1], time[2] >>

\* time.replace(":", ""): the four digits read as a number; comparing two
\* such zero-padded strings compares these numbers.
StripColon(time) == time[1] * 100 + time[2]

\* a.localeCompare(b) on two "HH:MM" strings: -1, 0 or 1
LocaleCompare(a, b) ==
  IF a[1] # b[1] THEN (IF a[1] < b[1] THEN -1 ELSE 1)
  ELSE IF a[2] # b[2] THEN (IF a[2] < b[2] THEN -1 ELSE 1)
  ELSE 0

Abs(x) == IF x < 0 THEN -x ELSE x

\* ------------------------------------------------------- timeSlots.js

\* A half-hour slot starting on the hour: { start: "HH:00", end: "HH:30" }.
HourSlot(h) == [start |-> <<h, 0>>, end |-> <<h, 30>>]

HourSlots(hours) == [i \in 1..Len(hours) |-> HourSlot(hours[i])]

DAY_NAMES ==
  << "SUNDAY", "MONDAY", "TUESDAY", "WEDNESDAY", "THURSDAY", "FRIDAY", "SATURDAY" >>

\* DAY_NAMES[date.getDay()]
DayName(date) == DAY_NAMES[GetDay(date) + 1]

WEEKLY_SCHEDULE ==
  [ MONDAY    |-> HourSlots(<<6, 7, 9, 10, 11, 12, 13, 14, 15, 16, 17, 18, 19, 20>>),
    TUESDAY   |-> HourSlots(<<6, 7, 9, 10, 11, 12, 13, 14, 15, 16, 17>>),
    WEDNESDAY |-> HourSlots(<<6, 7, 8, 9, 10, 11, 12, 13, 14, 15, 16, 17>>),
    THURSDAY  |-> HourSlots(<<6, 7, 8, 9, 10, 11, 12, 13, 14, 15, 16, 17>>),
    FRIDAY    |-> HourSlots(<<6, 7, 8, 9, 10, 11, 12, 13>>) ]

\* The 4th Thursday of November of the year.
GetThanksgivingDate(y) ==
  LET november == NewDate(y, 10, 1)
      thursdays == {d \in november..(november + 29) : GetDay(d) = 4}
  IN  CHOOSE d \in thursdays : Cardinality({e \in thursdays : e <= d}) = 4

\* The special dates without the full-day exclusions.
NoFullDayExclusions(y) ==
  [ noSessionDates |-> << >>,
    restrictedDates |->
      << [date |-> NewDate(y, 3, 17),  afterTime |-> <<8, 30>>],
         [date |-> NewDate(y, 4, 22),  afterTime |-> <<8, 30>>],
         [date |-> NewDate(y, 5, 19),  afterTime |-> <<8, 30>>],
         [date |-> NewDate(y, 11, 24), afterTime |-> <<13, 0>>],
         [date |-> NewDate(y, 11, 31), afterTime |-> <<13, 0>>] >> ]

\* The special dates without the partial restrictions.
NoRestrictedDates(y) ==
  [ noSessionDates |->
      << NewDate(y, 0, 1), NewDate(y, 6, 4), GetThanksgivingDate(y), NewDate(y, 11, 25) >>,
    restrictedDates |-> << >> ]

GetSpecialDatesForYear(y) ==
  [ noSessionDates |->
      << NewDate(y, 0, 1), NewDate(y, 6, 4), GetThanksgivingDate(y), NewDate(y, 11, 25) >>,
    restrictedDates |->
      << [date |-> NewDate(y, 3, 17),  afterTime |-> <<8, 30>>],
         [date |-> NewDate(y, 4, 22),  afterTime |-> <<8, 30>>],
         [date |-> NewDate(y, 5, 19),  afterTime |-> <<8, 30>>],
         [date |-> NewDate(y, 11, 24), afterTime |-> <<13, 0>>],
         [date |-> NewDate(y, 11, 31), afterTime |-> <<13, 0>>] >> ]

\* The slots of the date with a slot that starts at the cutoff kept.
SlotsThroughCutoff(date) ==
  LET dayName == DayName(date)
      specialDates == GetSpecialDatesForYear(GetFullYear(date))
      IsDate(d) == FormatDate(d) = FormatDate(date)
      restricted == SelectSeq(specialDates.restrictedDates, LAMBDA r : IsDate(r.date))
      UpTo(slot) == StripColon(slot.start) <= StripColon(restricted[1].afterTime)
  IN  IF dayName = "SUNDAY" \/ dayName = "SATURDAY" THEN << >>
      ELSE IF SelectSeq(specialDates.noSessionDates, IsDate) # << >> THEN << >>
      ELSE IF restricted # << >> THEN SelectSeq(WEEKLY_SCHEDULE[dayName], UpTo)
      ELSE WEEKLY_SCHEDULE[dayName]

GetAvailableTimeSlots(date) ==
  LET dayName == DayName(date)
      specialDates == GetSpecialDatesForYear(GetFullYear(date))
      dateStr == FormatDate(date)
      isNoSession ==
        \E i \in 1..Len(specialDates.noSessionDates) :
          FormatDate(specialDates.noSessionDates[i]) = dateStr
      hits == {i \in 1..Len(specialDates.restrictedDates) :
                 FormatDate(specialDates.restrictedDates[i].date) = dateStr}
  IN  IF dayName = "SUNDAY" \/ dayName = "SATURDAY" THEN << >>
      ELSE IF isNoSession THEN << >>
      ELSE IF hits # {} THEN
        LET restricted == specialDates.restrictedDates[CHOOSE i \in hits : \A j \in hits : i <= j]
            Before(slot) == StripColon(slot.start) < StripColon(restricted.afterTime)
        IN  SelectSeq(WEEKLY_SCHEDULE[dayName], Before)
      ELSE WEEKLY_SCHEDULE[dayName]

GetTimeDifferenceInHours(time1, time2) ==
  LET t1 == SplitTime(time1)
      t2 == SplitTime(time2)
      minutes1 == t1[1] * 60 + t1[2]
      minutes2 == t2[1] * 60 + t2[2]
  IN  \* the quotient Math.abs(minutes1 - minutes2) / 60, kept as a fraction
      [num |-> Abs(minutes1 - minutes2), den |-> 60]

\* fraction < n, for a fraction with a positive denominator
FracLess(f, n) == f.num < n * f.den

\* The weekday test of isValidForFinancialIntelligence alone, without the
\* lower bound on the hour.
ValidDayBeforeOnePm(dayName, startTime) ==
  IF dayName # "TUESDAY" /\ dayName # "WEDNESDAY" THEN FALSE
  ELSE SplitTime(startTime)[1] < 13

IsValidForFinancialIntelligence(dayName, startTime) ==
  IF dayName # "TUESDAY" /\ dayName # "WEDNESDAY" THEN FALSE
  ELSE LET hour == SplitTime(startTime)[1]
       IN  hour >= 10 /\ hour < 13

\* ------------------------------------------------ quarterUtils.js (April)

QUARTERS ==
  [ Q1 |-> [name |-> "Q1", months |-> <<4, 5, 6>>],
    Q2 |-> [name |-> "Q2", months |-> <<7, 8, 9>>],
    Q3 |-> [name |-> "Q3", months |-> <<10, 11, 12>>],
    Q4 |-> [name |-> "Q4", months |-> <<1, 2, 3>>] ]

\* Keys every object literal inherits from Object.prototype; QUARTERS[key]
\* is then a value of the prototype (a function), which has no months.
ObjectPrototypeKeys == {"constructor"}

\* QUARTERS[quarter] is undefined: getQuarterDateRange throws
\* Error("Invalid quarter: ...")
InvalidQuarter(q) == q \notin DOMAIN QUARTERS \cup ObjectPrototypeKeys

\* QUARTERS[quarter] is truthy but has no months: the destructuring of
\* quarterInfo.months throws a TypeError
MonthsNotIterable(q) == q \in ObjectPrototypeKeys

\* The quarter's range with all four quarters in the calendar year y.
RangeInCalendarYear(q, y) ==
  [ startDate |-> NewDate(y, QUARTERS[q].months[1] - 1, 1),
    endDate   |-> EndOfMonth(y, QUARTERS[q].months[3] - 1) ]

GetQuarterDateRange(q, y) ==
  LET months == QUARTERS[q].months
      startYear == IF q = "Q4" THEN y + 1 ELSE y
      endYear == IF q = "Q4" THEN y + 1 ELSE y
  IN  [ startDate |-> NewDate(startYear, months[1] - 1, 1),
        endDate   |-> EndOfMonth(endYear, months[3] - 1) ]

GetFinancialYearStart(y) == NewDate(y, 3, 1)

GetAllDatesInQuarter(q, y) ==
  LET r == GetQuarterDateRange(q, y)
  IN  [i \in 1..(r.endDate - r.startDate + 1) |-> r.startDate + i - 1]

\* Monday to Saturday.
IsNotSunday(date) == GetDay(date) >= 1 /\ GetDay(date) <= 6

IsWeekday(date) == GetDay(date) >= 1 /\ GetDay(date) <= 5

GetWeekdaysInQuarter(q, y) == SelectSeq(GetAllDatesInQuarter(q, y), IsWeekday)


\* ------------------------------------------------------ scheduleEngine.js

\* null, and a value that is not null
Null == << >>

Some(x) == << x >>

\* title.toLowerCase(), word by word
LowerWord(w) ==
  CASE w = "Financial"    -> "financial"
    [] w = "FINANCIAL"    -> "financial"
    [] w = "Intelligence" -> "intelligence"
    [] w = "INTELLIGENCE" -> "intelligence"
    [] w = "Leadership"   -> "leadership"
    [] w = "Advanced"     -> "advanced"
    [] w = "Planning"     -> "planning"
    [] OTHER              -> w

ToLowerCase(title) == [i \in 1..Len(title) |-> LowerWord(title[i])]

\* text.includes(pattern), on whole words
Includes(text, pattern) ==
  \E i \in 0..(Len(text) - Len(pattern)) :
    SubSeq(text, i + 1, i + Len(pattern)) = pattern

\* course.title.toLowerCase().includes("financial intelligence")
IsFinancialIntelligence(title) ==
  Includes(ToLowerCase(title), << "financial", "intelligence" >>)

\* new Map(), map.get(key) and map.set(key, value); keys in insertion order
NewMap == [keys |-> << >>, get |-> [k \in {} |-> Null]]

MapHas(map, key) == key \in DOMAIN map.get

MapSet(map, key, value) ==
  [ keys |-> IF MapHas(map, key) THEN map.keys ELSE Append(map.keys, key),
    get  |-> [k \in (DOMAIN map.get) \cup {key} |->
                IF k = key THEN value ELSE map.get[k]] ]

\* One Map entry per date, in the order of the dates (which are distinct),
\* every slot of the date free.
InitializeAvailabilityGrid(dates) ==
  LET DayData(date) ==
        LET slots == GetAvailableTimeSlots(date)
        IN  [ date  |-> date,
              slots |-> [i \in 1..Len(slots) |->
                           [ start     |-> slots[i].start,
                             end       |-> slots[i].end,
                             available |-> TRUE,
                             session   |-> Null ]] ]
  IN  [ keys |-> [i \in 1..Len(dates) |-> FormatDate(dates[i])],
        get  |-> [k \in {FormatDate(dates[i]) : i \in 1..Len(dates)} |->
                    DayData(dates[CHOOSE i \in 1..Len(dates) : FormatDate(dates[i]) = k])] ]

\* A lookup that never finds earlier instances.
NoEarlierInstances(courseHistory, title) == << >>

\* courseHistory.get(title) || []
HistoryOf(courseHistory, title) ==
  IF MapHas(courseHistory, title) THEN courseHistory.get[title] ELSE << >>

\* The first date that is not a Sunday.
RECURSIVE FirstNonSundayFrom(_)
FirstNonSundayFrom(currentDate) ==
  IF GetDay(currentDate) = 0
  THEN FirstNonSundayFrom(AddDays(currentDate, 1))
  ELSE currentDate

RECURSIVE FirstWeekdayFrom(_)
FirstWeekdayFrom(currentDate) ==
  IF GetDay(currentDate) = 0 \/ GetDay(currentDate) = 6
  THEN FirstWeekdayFrom(AddDays(currentDate, 1))
  ELSE currentDate

\* financialYearStart with the year raised by one, the month set to March
\* and the day set to 31
FinancialYearEnd(fyStart) == NewDate(GetFullYear(fyStart) + 1, 2, 31)

RECURSIVE CadenceDatesFrom(_, _, _, _)
CadenceDatesFrom(currentDate, cadence, financialYearEnd, dates) ==
  IF currentDate <= financialYearEnd
  THEN LET keep == dates # << >> /\ currentDate <= dates[Len(dates)]
       IN  (IF keep THEN << currentDate >> ELSE << >>)
             \o CadenceDatesFrom(AddWeeks(currentDate, cadence), cadence,
                                 financialYearEnd, dates)
  ELSE << >>

CalculateCadenceStartDates(course, fyStart, dates) ==
  CadenceDatesFrom(FirstWeekdayFrom(fyStart), course.cadence,
                   FinancialYearEnd(fyStart), dates)

\* quarterDates.filter((date) => date >= cadenceDate)
AvailableDatesFrom(dates, cadenceDate) ==
  LET OnOrAfter(date) == date >= cadenceDate
  IN  SelectSeq(dates, OnOrAfter)

\* findSuitableSlot's checks without the three-hour comparison with the
\* last instance.
SlotIsSuitableNoGap(slot, dayOfWeek, history, isFI) ==
  /\ slot.available
  /\ ~(isFI /\ ~IsValidForFinancialIntelligence(dayOfWeek, slot.start))
  /\ history # << >> =>
       ~(~isFI /\ dayOfWeek = history[Len(history)].dayOfWeek)

\* The checks of findSuitableSlot's loop body on one slot of the date.
SlotIsSuitable(slot, dayOfWeek, history, isFI) ==
  /\ slot.available
  /\ ~(isFI /\ ~IsValidForFinancialIntelligence(dayOfWeek, slot.start))
  /\ history # << >> =>
       LET lastInstance == history[Len(history)]
       IN  /\ ~(~isFI /\ dayOfWeek = lastInstance.dayOfWeek)
           /\ ~FracLess(GetTimeDifferenceInHours(slot.start, lastInstance.startTime), 3)

\* A search that keeps the last slot passing the checks.
FindLastSuitableSlot(date, grid, history, isFI) ==
  LET dateKey == FormatDate(date)
  IN  IF ~MapHas(grid, dateKey) THEN Null
      ELSE LET slots == grid.get[dateKey].slots
               dayOfWeek == DayName(date)
               ok == {i \in 1..Len(slots) : SlotIsSuitable(slots[i], dayOfWeek, history, isFI)}
           IN  IF ok = {} THEN Null
               ELSE LET i == CHOOSE j \in ok : \A k \in ok : j >= k
                    IN  Some([ dayOfWeek |-> dayOfWeek,
                               startTime |-> slots[i].start,
                               endTime   |-> slots[i].end ])

FindSuitableSlot(date, grid, history, isFI) ==
  LET dateKey == FormatDate(date)
  IN  IF ~MapHas(grid, dateKey) THEN Null
      ELSE LET slots == grid.get[dateKey].slots
               dayOfWeek == DayName(date)
               ok == {i \in 1..Len(slots) : SlotIsSuitable(slots[i], dayOfWeek, history, isFI)}
           IN  IF ok = {} THEN Null
               ELSE LET i == CHOOSE j \in ok : \A k \in ok : j <= k
                    IN  Some([ dayOfWeek |-> dayOfWeek,
                               startTime |-> slots[i].start,
                               endTime   |-> slots[i].end ])

\* DAY_NAMES.indexOf(name), 0-based
DayIndexOf(name) == (CHOOSE i \in 1..Len(DAY_NAMES) : DAY_NAMES[i] = name) - 1

\* A search that passes over the dates that have no slot at all.
FindNextDateWithSlots(fromDate, targetDayOfWeek, dates) ==
  LET targetDayIndex == DayIndexOf(targetDayOfWeek)
      ok == {i \in 1..Len(dates) :
               /\ dates[i] >= fromDate
               /\ GetDay(dates[i]) = targetDayIndex
               /\ GetAvailableTimeSlots(dates[i]) # << >>}
  IN  IF ok = {} THEN Null
      ELSE Some(dates[CHOOSE j \in ok : \A k \in ok : j <= k])

FindNextAvailableDate(fromDate, targetDayOfWeek, dates) ==
  LET targetDayIndex == DayIndexOf(targetDayOfWeek)
      ok == {i \in 1..Len(dates) : dates[i] >= fromDate /\ GetDay(dates[i]) = targetDayIndex}
  IN  IF ok = {} THEN Null
      ELSE Some(dates[CHOOSE j \in ok : \A k \in ok : j <= k])

\* A findIndex on the start time alone, blind to s.available.
FindIndexIgnoringAvailable(slots, startTime) ==
  LET ok == {i \in 1..Len(slots) : slots[i].start = startTime}
  IN  IF ok = {} THEN 0 ELSE CHOOSE j \in ok : \A k \in ok : j <= k

\* slots.findIndex((s) => s.start === startTime && s.available), 1-based,
\* 0 when nothing is found
FindFreeSlotIndex(slots, startTime) ==
  LET ok == {i \in 1..Len(slots) : slots[i].start = startTime /\ slots[i].available}
  IN  IF ok = {} THEN 0 ELSE CHOOSE j \in ok : \A k \in ok : j <= k

\* A findIndex that finds nothing.
FindIndexNothing(slots, startTime) == 0

\* slots.findIndex((s) => s.start === startTime), 1-based, 0 when nothing
\* is found
FindSlotIndex(slots, startTime) ==
  LET ok == {i \in 1..Len(slots) : slots[i].start = startTime}
  IN  IF ok = {} THEN 0 ELSE CHOOSE j \in ok : \A k \in ok : j <= k

\* A slot update that writes the session and leaves the available flag.
SetSessionOnly(grid, dateKey, slotIndex, available, session) ==
  [grid EXCEPT !.get[dateKey].slots[slotIndex].session = session]

\* A slot update that also shortens the slot to nothing.
SetSlotAndEnd(grid, dateKey, slotIndex, available, session) ==
  [grid EXCEPT !.get[dateKey].slots[slotIndex].available = available,
               !.get[dateKey].slots[slotIndex].session = session,
               !.get[dateKey].slots[slotIndex].end =
                 grid.get[dateKey].slots[slotIndex].start]

\* The grid with slot slotIndex of dateKey set to (available, session).
SetSlot(grid, dateKey, slotIndex, available, session) ==
  [grid EXCEPT !.get[dateKey].slots[slotIndex].available = available,
               !.get[dateKey].slots[slotIndex].session = session]

\* A rollback that releases the slot of the first session only.
RollbackFirstOnly(sessions, grid) ==
  IF sessions = << >> THEN grid
  ELSE LET session == Head(sessions)
           dateKey == FormatDate(session.date)
           slotIndex == IF MapHas(grid, dateKey)
                        THEN FindSlotIndex(grid.get[dateKey].slots, session.startTime)
                        ELSE 0
       IN  IF slotIndex # 0 THEN SetSlot(grid, dateKey, slotIndex, TRUE, Null)
           ELSE grid

\* A rollback that releases nothing.
RollbackNothing(sessions, grid) == grid

\* A rollback that releases every slot of the dates of the sessions.
RECURSIVE RollbackWholeDates(_, _)
RollbackWholeDates(sessions, grid) ==
  IF sessions = << >> THEN grid
  ELSE LET dateKey == FormatDate(Head(sessions).date)
       IN  RollbackWholeDates(Tail(sessions),
             IF MapHas(grid, dateKey)
             THEN [grid EXCEPT !.get[dateKey].slots =
                     [i \in 1..Len(@) |-> [ start |-> @[i].start, end |-> @[i].end,
                                            available |-> TRUE, session |-> Null ]]]
             ELSE grid)

\* A rollback that flips the available flag of each session's slot.
RECURSIVE RollbackToggling(_, _)
RollbackToggling(sessions, grid) ==
  IF sessions = << >> THEN grid
  ELSE LET session == Head(sessions)
           dateKey == FormatDate(session.date)
           slotIndex == IF MapHas(grid, dateKey)
                        THEN FindSlotIndex(grid.get[dateKey].slots, session.startTime)
                        ELSE 0
       IN  RollbackToggling(Tail(sessions),
             IF slotIndex # 0
             THEN SetSlot(grid, dateKey, slotIndex,
                          ~grid.get[dateKey].slots[slotIndex].available, Null)
             ELSE grid)

RECURSIVE RollbackSessions(_, _)
RollbackSessions(sessions, grid) ==
  IF sessions = << >> THEN grid
  ELSE LET session == Head(sessions)
           dateKey == FormatDate(session.date)
           slotIndex == IF MapHas(grid, dateKey)
                        THEN FindSlotIndex(grid.get[dateKey].slots, session.startTime)
                        ELSE 0
       IN  RollbackSessions(Tail(sessions),
             IF slotIndex # 0 THEN SetSlot(grid, dateKey, slotIndex, TRUE, Null)
             ELSE grid)


\* The comparator of generateSchedule's sort: negative, zero or positive.
CompareSessions(a, b) ==
  IF a.date # b.date THEN a.date - b.date
  ELSE LocaleCompare(a.startTime, b.startTime)

\* The list left in the order the sessions were pushed.
InsertionOrder(list) == list

\* Array.prototype.sort with CompareSessions, a stable sort: a session
\* goes after the sessions that compare lower and after the equal ones that
\* stood before it.
SortSessions(list) ==
  LET n == Len(list)
      Before(j, i) ==
        \/ CompareSessions(list[j], list[i]) < 0
        \/ CompareSessions(list[j], list[i]) = 0 /\ j < i
      rank == [i \in 1..n |-> 1 + Cardinality({j \in 1..n : Before(j, i)})] \o << >>
      from == [p \in 1..n |-> CHOOSE i \in 1..n : rank[i] = p] \o << >>
  IN  [p \in 1..n |-> list[from[p]]]

\* A label for the half of the day the session starts in.
HalfDayLabel(session) ==
  IF session.startTime[1] < 12 THEN << << 0, 0 >>, << 12, 0 >> >>
  ELSE << << 12, 0 >>, << 24, 0 >> >>

\* `${session.startTime} - ${session.endTime}`
TimeSlotLabel(session) == << session.startTime, session.endTime >>

\* Array.from(set).sort() on time-slot labels: ascending by start, then end
RECURSIVE SortLabels(_)
SortLabels(labels) ==
  IF labels = {} THEN << >>
  ELSE LET least == CHOOSE l \in labels : \A o \in labels :
                      \/ LocaleCompare(l[1], o[1]) < 0
                      \/ LocaleCompare(l[1], o[1]) = 0 /\ LocaleCompare(l[2], o[2]) <= 0
       IN  << least >> \o SortLabels(labels \ {least})

GenerateCalendarGrid(sessions, dates) ==
  LET idx == 1..Len(sessions)
      dateKeys == {FormatDate(sessions[i].date) : i \in idx}
      LabelsOf(dateKey) ==
        {TimeSlotLabel(sessions[i]) : i \in {j \in idx : FormatDate(sessions[j].date) = dateKey}}
      InCell(dateKey, label) ==
        LET Here(session) == FormatDate(session.date) = dateKey
                               /\ TimeSlotLabel(session) = label
        IN  SelectSeq(sessions, Here)
  IN  [ dates     |-> dates,
        timeSlots |-> SortLabels({TimeSlotLabel(sessions[i]) : i \in idx}),
        grid      |-> [dateKey \in dateKeys |->
                         [label \in LabelsOf(dateKey) |->
                            LET cell == InCell(dateKey, label)
                            IN  [i \in 1..Len(cell) |->
                                   [ course        |-> cell[i].courseName,
                                     sessionNumber |-> cell[i].sessionNumber ]]]] ]

\* slots.length
SlotCount(slots) == Len(slots)

\* slots.filter((s) => s.available).length
AvailableCount(slots) == Cardinality({i \in 1..Len(slots) : slots[i].available})

\* The sum of the numbers of a sequence.
RECURSIVE SumSeq(_)
SumSeq(numbers) ==
  IF Len(numbers) = 0 THEN 0
  ELSE IF Len(numbers) = 1 THEN numbers[1]
  ELSE LET half == Len(numbers) \div 2
       IN  SumSeq(SubSeq(numbers, 1, half))
             + SumSeq(SubSeq(numbers, half + 1, Len(numbers)))

\* The totals with a date listed as fully booked whenever none of its slots
\* is free, a date without slots included.
TotalsListingEmptyDates(grid) ==
  LET keys == grid.keys
      NoneFree(key) == AvailableCount(grid.get[key].slots) = 0
      booked == SelectSeq(keys, NoneFree)
  IN  [ totalSlots       |-> SumSeq([i \in 1..Len(keys) |-> Len(grid.get[keys[i]].slots)]),
        availableSlots   |-> SumSeq([i \in 1..Len(keys) |->
                                       AvailableCount(grid.get[keys[i]].slots)]),
        fullyBookedDates |-> [i \in 1..Len(booked) |-> grid.get[booked[i]].date] ]

\* The totals calculateStatistics accumulates over the grid's entries, in
\* the grid's key order.
StatisticsTotals(grid) ==
  LET keys == grid.keys
      FullyBooked(key) ==
        /\ Len(grid.get[key].slots) > 0
        /\ AvailableCount(grid.get[key].slots) = 0
      booked == SelectSeq(keys, FullyBooked)
  IN  [ totalSlots       |-> SumSeq([i \in 1..Len(keys) |-> Len(grid.get[keys[i]].slots)]),
        availableSlots   |-> SumSeq([i \in 1..Len(keys) |->
                                       AvailableCount(grid.get[keys[i]].slots)]),
        fullyBookedDates |-> [i \in 1..Len(booked) |-> grid.get[booked[i]].date] ]

\* A percentage that may come out as either neighbouring hundredth.
EitherHundredth(used, totalSlots) ==
  {(used * 10000) \div totalSlots, (used * 10000) \div totalSlots + 1}

\* The percentage cut to two decimals instead of rounded.
TruncatedPercent(used, totalSlots) == {(used * 10000) \div totalSlots}

\* (((totalSlots - availableSlots) / totalSlots) * 100).toFixed(2), as the
\* number of hundredths its digits spell.  The floating-point product may
\* fall on either side of an exact half hundredth, so both roundings are
\* outcomes there.
ToFixed2Percent(used, totalSlots) ==
  LET q == (used * 10000) \div totalSlots
      r == (used * 10000) % totalSlots
  IN  IF 2 * r < totalSlots THEN {q}
      ELSE IF 2 * r > totalSlots THEN {q + 1}
      ELSE {q, q + 1}

\* The values calculateStatistics can return.
CalculateStatistics(grid, sessions) ==
  LET t == StatisticsTotals(grid)
      percents == IF t.totalSlots > 0
                  THEN ToFixed2Percent(t.totalSlots - t.availableSlots, t.totalSlots)
                  ELSE {0}
  IN  { [ totalAvailableSlots    |-> t.totalSlots,
          slotsAfterScheduling   |-> t.availableSlots,
          totalScheduledSessions |-> Len(sessions),
          fullyBookedDates       |-> t.fullyBookedDates,
          utilizationPercentage  |-> p ] : p \in percents }


\* ------------------------------------------------------------------ inputs

\* The financial year the runs are made for (FY 2025-26).
FiscalYear == 2025

Leadership == << "Leadership" >>

AdvancedFI == << "Advanced", "FINANCIAL", "Intelligence" >>

FinancialPlanning == << "Financial", "Planning" >>

\* A course record as the cadence file's parser builds it.
Course(title, cadence, sessions) ==
  [ title |-> title, cadence |-> cadence, sessions |-> sessions,
    lastSessionDate |-> Null, notes |-> "" ]

\* Course records as the cadence file supplies them.
Catalog ==
  { Course(Leadership, 26, 2),
    Course(AdvancedFI, 13, 2),
    Course(FinancialPlanning, 52, 15) }

\* The lists of n distinct courses of the catalog.
RECURSIVE ListsOfLength(_)
ListsOfLength(n) ==
  IF n = 0 THEN {<< >>}
  ELSE {Append(l, c) : l \in ListsOfLength(n - 1), c \in Catalog} \
         {Append(l, l[i]) : l \in ListsOfLength(n - 1), i \in 1..(n - 1)}

CourseLists == UNION {ListsOfLength(n) : n \in 0..MaxCourses}

QuarterIds == {"Q1", "Q2", "Q3", "Q4", "Q5", "constructor"}

\* ------------------------------------------------------------------- state

VARIABLES
  courses, quarter, year,          \* generateSchedule's arguments
  financialYearStart, quarterDates,
  availabilityGrid, courseHistory, scheduledSessions,
  courseIdx,                       \* position of courses.forEach
  courseSessions,                  \* scheduleCourse's sessions
  currentDate,                     \* calculateCadenceStartDates' loop variable
  cadenceStartDates, cadenceIdx,   \* position of cadenceStartDates.forEach
  availableDates, dateIdx,         \* position of the loop over availableDates
  suitableSlot, sessions,          \* scheduleCourseSessions' locals
  currentSessionDate, sessionNum,
  scheduled,                       \* what scheduleCourseSessions returned
  result,                          \* what generateSchedule returned
  pc,
  atCall,                          \* history: the state when the attempt began
  freeAtCourse,                    \* history: free slots when the course began
  firstResult,                     \* history: what an earlier, identical call returned
  aloneRun,                        \* history: a quarter and what its run on its own returned
  quarterIdx                       \* position of App's loop over the quarters

inputVars == << courses, quarter, year >>

runVars == << financialYearStart, quarterDates >>

courseVars == << courseIdx, cadenceStartDates, cadenceIdx, availableDates, dateIdx >>

callVars == << firstResult, aloneRun, quarterIdx >>

attemptVars == << suitableSlot, sessions, currentSessionDate, sessionNum >>

vars == << courses, quarter, year, financialYearStart, quarterDates,
           availabilityGrid, courseHistory, scheduledSessions, courseIdx,
           courseSessions, cadenceStartDates, cadenceIdx, availableDates,
           dateIdx, suitableSlot, sessions, currentSessionDate, sessionNum,
           scheduled, result, pc, atCall, freeAtCourse, firstResult,
           aloneRun, quarterIdx,
           currentDate >>

\* Number of free slots of the grid.
FreeCount(grid) ==
  SumSeq([i \in 1..Len(grid.keys) |-> AvailableCount(grid.get[grid.keys[i]].slots)])

Snapshot ==
  [ grid |-> availabilityGrid, history |-> courseHistory,
    scheduledSessions |-> scheduledSessions, courseSessions |-> courseSessions ]

NoSnapshot ==
  [ grid |-> NewMap, history |-> NewMap,
    scheduledSessions |-> << >>, courseSessions |-> << >> ]

Locals0 ==
  /\ financialYearStart = 0
  /\ quarterDates = << >>
  /\ availabilityGrid = NewMap
  /\ courseHistory = NewMap
  /\ scheduledSessions = << >>
  /\ courseIdx = 0
  /\ courseSessions = << >>
  /\ cadenceStartDates = << >>
  /\ cadenceIdx = 0
  /\ availableDates = << >>
  /\ dateIdx = 0
  /\ suitableSlot = Null
  /\ sessions = << >>
  /\ currentSessionDate = 0
  /\ sessionNum = 0
  /\ scheduled = << >>
  /\ result = Null
  /\ atCall = NoSnapshot
  /\ freeAtCourse = 0
  /\ firstResult = Null
  /\ aloneRun = Null
  /\ quarterIdx = 0
  /\ currentDate = 0

\* generateSchedule(courses, quarter, year) has just been called.
Init ==
  /\ courses \in CourseLists
  /\ quarter \in QuarterIds
  /\ year = FiscalYear
  /\ pc = "generateSchedule"
  /\ Locals0

\* generateSchedule with the course history kept from call to call, as a
\* Map of the module would be.
GenerateScheduleKeepingHistory ==
  /\ pc = "generateSchedule"
  /\ IF InvalidQuarter(quarter)
     THEN /\ pc' = "threw"
          /\ UNCHANGED << runVars, availabilityGrid, courseHistory,
                          scheduledSessions, courseIdx >>
     ELSE IF MonthsNotIterable(quarter)
     THEN /\ pc' = "typeError"
          /\ UNCHANGED << runVars, availabilityGrid, courseHistory,
                          scheduledSessions, courseIdx >>
     ELSE /\ financialYearStart' = GetFinancialYearStart(year)
          /\ quarterDates' = GetWeekdaysInQuarter(quarter, year)
          /\ availabilityGrid' = InitializeAvailabilityGrid(quarterDates')
          /\ courseHistory' = courseHistory
          /\ scheduledSessions' = << >>
          /\ courseIdx' = 1
          /\ pc' = "forEach"
  /\ UNCHANGED << inputVars, callVars, currentDate, courseSessions,
                  cadenceStartDates, cadenceIdx, availableDates, dateIdx,
                  attemptVars, scheduled, result, atCall, freeAtCourse >>

\* generateSchedule processing the courses from the last to the first.
GenerateScheduleLastFirst ==
  /\ pc = "generateSchedule"
  /\ IF InvalidQuarter(quarter)
     THEN /\ pc' = "threw"
          /\ UNCHANGED << runVars, availabilityGrid, courseHistory,
                          scheduledSessions, courseIdx >>
     ELSE IF MonthsNotIterable(quarter)
     THEN /\ pc' = "typeError"
          /\ UNCHANGED << runVars, availabilityGrid, courseHistory,
                          scheduledSessions, courseIdx >>
     ELSE /\ financialYearStart' = GetFinancialYearStart(year)
          /\ quarterDates' = GetWeekdaysInQuarter(quarter, year)
          /\ availabilityGrid' = InitializeAvailabilityGrid(quarterDates')
          /\ courseHistory' = NewMap
          /\ scheduledSessions' = << >>
          /\ courseIdx' = 1
          /\ pc' = "forEach"
  /\ courses' = [i \in 1..Len(courses) |-> courses[Len(courses) + 1 - i]]
  /\ UNCHANGED << quarter, year, callVars, currentDate, courseSessions,
                  cadenceStartDates, cadenceIdx, availableDates, dateIdx,
                  attemptVars, scheduled, result, atCall, freeAtCourse >>

\* generateSchedule up to the forEach over the courses; getWeekdaysInQuarter
\* throws the invalid-quarter Error on a key QUARTERS does not have, and a
\* TypeError on a key whose value has no months.  The grid, the history Map
\* and the session list are created by the call.
GenerateSchedule ==
  /\ pc = "generateSchedule"
  /\ IF InvalidQuarter(quarter)
     THEN /\ pc' = "threw"
          /\ UNCHANGED << runVars, availabilityGrid, courseHistory,
                          scheduledSessions, courseIdx >>
     ELSE IF MonthsNotIterable(quarter)
     THEN /\ pc' = "typeError"
          /\ UNCHANGED << runVars, availabilityGrid, courseHistory,
                          scheduledSessions, courseIdx >>
     ELSE /\ financialYearStart' = GetFinancialYearStart(year)
          /\ quarterDates' = GetWeekdaysInQuarter(quarter, year)
          /\ availabilityGrid' = InitializeAvailabilityGrid(quarterDates')
          /\ courseHistory' = NewMap
          /\ scheduledSessions' = << >>
          /\ courseIdx' = 1
          /\ pc' = "forEach"
  /\ UNCHANGED << inputVars, callVars, currentDate, courseSessions,
                  cadenceStartDates, cadenceIdx, availableDates, dateIdx,
                  attemptVars, scheduled, result, atCall, freeAtCourse >>

\* The first index ci or later of a cadence date that has candidate dates,
\* 0 when there is none (a forEach iteration with no candidates does nothing).
RECURSIVE NextCadenceIdx(_, _, _)
NextCadenceIdx(cadenceDates, ci, dates) ==
  IF ci > Len(cadenceDates) THEN 0
  ELSE IF AvailableDatesFrom(dates, cadenceDates[ci]) # << >> THEN ci
  ELSE NextCadenceIdx(cadenceDates, ci + 1, dates)

\* scheduleCourse marking the course record it is given.
ScheduleCourseMarkingCourse ==
  /\ pc = "forEach"
  /\ courseIdx <= Len(courses)
  /\ courseSessions' = << >>
  /\ freeAtCourse' = FreeCount(availabilityGrid)
  /\ cadenceStartDates' = << >>
  /\ currentDate' = FirstWeekdayFrom(financialYearStart)
  /\ cadenceIdx' = 0
  /\ availableDates' = << >>
  /\ dateIdx' = 0
  /\ pc' = "cadenceLoop"
  /\ courses' = [courses EXCEPT ![courseIdx].notes = "scheduled"]
  /\ UNCHANGED << quarter, year, callVars, runVars, availabilityGrid, courseHistory,
                  scheduledSessions, courseIdx, attemptVars, scheduled, result,
                  atCall >>

\* scheduleCourse beginning each course record with an empty history.
ScheduleCourseForgettingTitle ==
  /\ pc = "forEach"
  /\ courseIdx <= Len(courses)
  /\ courseSessions' = << >>
  /\ freeAtCourse' = FreeCount(availabilityGrid)
  /\ cadenceStartDates' = << >>
  /\ currentDate' = FirstWeekdayFrom(financialYearStart)
  /\ cadenceIdx' = 0
  /\ availableDates' = << >>
  /\ dateIdx' = 0
  /\ pc' = "cadenceLoop"
  /\ courseHistory' = NewMap
  /\ UNCHANGED << inputVars, callVars, runVars, availabilityGrid,
                  scheduledSessions, courseIdx, attemptVars, scheduled, result,
                  atCall >>

\* scheduleCourse is entered for the next course, and
\* calculateCadenceStartDates up to its loop over the cadence periods.
ScheduleCourse ==
  /\ pc = "forEach"
  /\ courseIdx <= Len(courses)
  /\ courseSessions' = << >>
  /\ freeAtCourse' = FreeCount(availabilityGrid)
  /\ cadenceStartDates' = << >>
  /\ currentDate' = FirstWeekdayFrom(financialYearStart)
  /\ cadenceIdx' = 0
  /\ availableDates' = << >>
  /\ dateIdx' = 0
  /\ pc' = "cadenceLoop"
  /\ UNCHANGED << inputVars, callVars, runVars, availabilityGrid, courseHistory,
                  scheduledSessions, courseIdx, attemptVars, scheduled, result,
                  atCall >>

\* One iteration of while (currentDate <= financialYearEnd): the date is
\* kept when it is not after the quarter's last date, and moves on by the
\* course's cadence.
CadenceLoop ==
  /\ pc = "cadenceLoop"
  /\ currentDate <= FinancialYearEnd(financialYearStart)
  /\ cadenceStartDates' =
       IF quarterDates # << >> /\ currentDate <= quarterDates[Len(quarterDates)]
       THEN Append(cadenceStartDates, currentDate)
       ELSE cadenceStartDates
  /\ currentDate' = AddWeeks(currentDate, courses[courseIdx].cadence)
  /\ UNCHANGED << inputVars, callVars, runVars, availabilityGrid, courseHistory,
                  scheduledSessions, courseIdx, courseSessions, cadenceIdx,
                  availableDates, dateIdx, attemptVars, scheduled, result, pc,
                  atCall, freeAtCourse >>

\* The loop has ended and calculateCadenceStartDates returns: the first
\* sweep's candidate dates.
CadenceLoopEnd ==
  /\ pc = "cadenceLoop"
  /\ currentDate > FinancialYearEnd(financialYearStart)
  /\ LET ci == NextCadenceIdx(cadenceStartDates, 1, quarterDates)
     IN  IF ci = 0
         THEN /\ cadenceIdx' = Len(cadenceStartDates) + 1
              /\ availableDates' = << >>
              /\ dateIdx' = 0
              /\ courseIdx' = courseIdx + 1
              /\ pc' = "forEach"
         ELSE /\ cadenceIdx' = ci
              /\ availableDates' = AvailableDatesFrom(quarterDates, cadenceStartDates[ci])
              /\ dateIdx' = 1
              /\ courseIdx' = courseIdx
              /\ pc' = "attempt"
  /\ UNCHANGED << inputVars, callVars, currentDate, runVars, availabilityGrid,
                  courseHistory, scheduledSessions, courseSessions,
                  cadenceStartDates, attemptVars, scheduled, result, atCall,
                  freeAtCourse >>

\* scheduleCourseSessions is called for the candidate start date: the slot
\* search, and the return when no slot suits.
ScheduleCourseSessions ==
  /\ pc = "attempt"
  /\ LET course == courses[courseIdx]
         startDate == availableDates[dateIdx]
         history == HistoryOf(courseHistory, course.title)
         slot == FindSuitableSlot(startDate, availabilityGrid, history,
                                  IsFinancialIntelligence(course.title))
     IN  /\ suitableSlot' = slot
         /\ sessions' = << >>
         /\ currentSessionDate' = startDate
         /\ sessionNum' = 1
         /\ IF slot = Null \/ 1 > course.sessions
            THEN scheduled' = << >> /\ pc' = "returned"
            ELSE scheduled' = scheduled /\ pc' = "book"
  /\ atCall' = Snapshot
  /\ UNCHANGED << inputVars, callVars, currentDate, runVars, availabilityGrid, courseHistory,
                  scheduledSessions, courseVars, courseSessions, result,
                  freeAtCourse >>

\* A loop iteration that, when the session cannot be booked, rolls back and
\* starts again with a later suitable slot of the start date, if there is one.
BookSessionRetryingLaterSlot ==
  /\ pc = "book"
  /\ \E course \in {courses[courseIdx]}, slot \in {suitableSlot[1]} :
     \E sessionDate \in {FindNextAvailableDate(currentSessionDate, slot.dayOfWeek,
                                               quarterDates)} :
     \E dateKey \in {IF sessionDate # Null THEN FormatDate(sessionDate[1]) ELSE Null} :
     \E slotIndex \in {IF sessionDate # Null /\ MapHas(availabilityGrid, dateKey)
                       THEN FindFreeSlotIndex(availabilityGrid.get[dateKey].slots,
                                              slot.startTime)
                       ELSE 0} :
         IF slotIndex = 0
         THEN LET startDate == availableDates[dateIdx]
                  rolledBack == RollbackSessions(sessions, availabilityGrid)
                  slots == rolledBack.get[FormatDate(startDate)].slots
                  later == {i \in 1..Len(slots) :
                              /\ SlotIsSuitable(slots[i], DayName(startDate),
                                                HistoryOf(courseHistory, course.title),
                                                IsFinancialIntelligence(course.title))
                              /\ LocaleCompare(slot.startTime, slots[i].start) < 0}
              IN  /\ availabilityGrid' = rolledBack
                  /\ IF later = {}
                     THEN /\ scheduled' = << >>
                          /\ pc' = "returned"
                          /\ UNCHANGED attemptVars
                     ELSE /\ suitableSlot' =
                               LET i == CHOOSE a \in later : \A b \in later : a <= b
                               IN  Some([ dayOfWeek |-> slot.dayOfWeek,
                                          startTime |-> slots[i].start,
                                          endTime   |-> slots[i].end ])
                          /\ sessions' = << >>
                          /\ currentSessionDate' = startDate
                          /\ sessionNum' = 1
                          /\ scheduled' = scheduled
                          /\ pc' = "book"
         ELSE /\ availabilityGrid' =
                   SetSlot(availabilityGrid, dateKey, slotIndex, FALSE,
                           Some([course |-> course.title, sessionNumber |-> sessionNum]))
              /\ sessions' = Append(sessions,
                   [ date                |-> sessionDate[1],
                     courseName          |-> course.title,
                     sessionNumber       |-> sessionNum,
                     startTime           |-> slot.startTime,
                     endTime             |-> slot.endTime,
                     instructorFirstName |-> "",
                     instructorLastName  |-> "" ])
              /\ currentSessionDate' = AddWeeks(sessionDate[1], 1)
              /\ sessionNum' = sessionNum + 1
              /\ suitableSlot' = suitableSlot
              /\ IF sessionNum + 1 <= course.sessions
                 THEN scheduled' = scheduled /\ pc' = "book"
                 ELSE scheduled' = sessions' /\ pc' = "returned"
  /\ UNCHANGED << inputVars, callVars, currentDate, runVars, courseHistory, scheduledSessions,
                  courseVars, courseSessions, result, atCall, freeAtCourse >>

\* One iteration of scheduleCourseSessions' loop over the session numbers:
\* the session is booked, or the attempt is rolled back and returns [].
\* The iteration's constants are bound once, by quantifiers over singletons.
BookSession ==
  /\ pc = "book"
  /\ \E course \in {courses[courseIdx]}, slot \in {suitableSlot[1]} :
     \E sessionDate \in {FindNextAvailableDate(currentSessionDate, slot.dayOfWeek,
                                               quarterDates)} :
     \E dateKey \in {IF sessionDate # Null THEN FormatDate(sessionDate[1]) ELSE Null} :
     \E slotIndex \in {IF sessionDate # Null /\ MapHas(availabilityGrid, dateKey)
                       THEN FindFreeSlotIndex(availabilityGrid.get[dateKey].slots,
                                              slot.startTime)
                       ELSE 0} :
         IF slotIndex = 0
         THEN /\ availabilityGrid' = RollbackSessions(sessions, availabilityGrid)
              /\ scheduled' = << >>
              /\ pc' = "returned"
              /\ UNCHANGED attemptVars
         ELSE /\ availabilityGrid' =
                   SetSlot(availabilityGrid, dateKey, slotIndex, FALSE,
                           Some([course |-> course.title, sessionNumber |-> sessionNum]))
              /\ sessions' = Append(sessions,
                   [ date                |-> sessionDate[1],
                     courseName          |-> course.title,
                     sessionNumber       |-> sessionNum,
                     startTime           |-> slot.startTime,
                     endTime             |-> slot.endTime,
                     instructorFirstName |-> "",
                     instructorLastName  |-> "" ])
              /\ currentSessionDate' = AddWeeks(sessionDate[1], 1)
              /\ sessionNum' = sessionNum + 1
              /\ suitableSlot' = suitableSlot
              /\ IF sessionNum + 1 <= course.sessions
                 THEN scheduled' = scheduled /\ pc' = "book"
                 ELSE scheduled' = sessions' /\ pc' = "returned"
  /\ UNCHANGED << inputVars, callVars, currentDate, runVars, courseHistory, scheduledSessions,
                  courseVars, courseSessions, result, atCall, freeAtCourse >>

\* scheduleCourse leaving the sweep of a cadence date at its first booked
\* instance.
AfterAttemptEndingSweep ==
  /\ pc = "returned"
  /\ LET course == courses[courseIdx]
         startDate == availableDates[dateIdx]
         ci == IF dateIdx < Len(availableDates) /\ Len(scheduled) = 0 THEN cadenceIdx
               ELSE NextCadenceIdx(cadenceStartDates, cadenceIdx + 1, quarterDates)
     IN  /\ IF Len(scheduled) > 0
            THEN /\ courseSessions' = courseSessions \o scheduled
                 /\ courseHistory' =
                      MapSet(courseHistory, course.title,
                             Append(HistoryOf(courseHistory, course.title),
                                    [ startDate |-> startDate,
                                      dayOfWeek |-> DayName(startDate),
                                      startTime |-> scheduled[1].startTime ]))
            ELSE UNCHANGED << courseSessions, courseHistory >>
         /\ IF ci = 0
            THEN /\ scheduledSessions' = scheduledSessions \o courseSessions'
                 /\ courseIdx' = courseIdx + 1
                 /\ cadenceIdx' = Len(cadenceStartDates) + 1
                 /\ UNCHANGED << availableDates, dateIdx >>
                 /\ pc' = "forEach"
            ELSE /\ UNCHANGED << scheduledSessions, courseIdx >>
                 /\ cadenceIdx' = ci
                 /\ availableDates' =
                      IF ci = cadenceIdx THEN availableDates
                      ELSE AvailableDatesFrom(quarterDates, cadenceStartDates[ci])
                 /\ dateIdx' = IF ci = cadenceIdx THEN dateIdx + 1 ELSE 1
                 /\ pc' = "attempt"
  /\ UNCHANGED << inputVars, callVars, currentDate, runVars, availabilityGrid, cadenceStartDates,
                  attemptVars, scheduled, result, atCall, freeAtCourse >>

\* scheduleCourse after the call: a booked instance is kept and recorded in
\* the history, and the loops move on; when the last cadence date's sweep
\* ends, scheduleCourse returns and its sessions join the result list.
AfterAttempt ==
  /\ pc = "returned"
  /\ LET course == courses[courseIdx]
         startDate == availableDates[dateIdx]
         ci == IF dateIdx < Len(availableDates) THEN cadenceIdx
               ELSE NextCadenceIdx(cadenceStartDates, cadenceIdx + 1, quarterDates)
     IN  /\ IF Len(scheduled) > 0
            THEN /\ courseSessions' = courseSessions \o scheduled
                 /\ courseHistory' =
                      MapSet(courseHistory, course.title,
                             Append(HistoryOf(courseHistory, course.title),
                                    [ startDate |-> startDate,
                                      dayOfWeek |-> DayName(startDate),
                                      startTime |-> scheduled[1].startTime ]))
            ELSE UNCHANGED << courseSessions, courseHistory >>
         /\ IF ci = 0
            THEN /\ scheduledSessions' = scheduledSessions \o courseSessions'
                 /\ courseIdx' = courseIdx + 1
                 /\ cadenceIdx' = Len(cadenceStartDates) + 1
                 /\ UNCHANGED << availableDates, dateIdx >>
                 /\ pc' = "forEach"
            ELSE /\ UNCHANGED << scheduledSessions, courseIdx >>
                 /\ cadenceIdx' = ci
                 /\ availableDates' =
                      IF ci = cadenceIdx THEN availableDates
                      ELSE AvailableDatesFrom(quarterDates, cadenceStartDates[ci])
                 /\ dateIdx' = IF ci = cadenceIdx THEN dateIdx + 1 ELSE 1
                 /\ pc' = "attempt"
  /\ UNCHANGED << inputVars, callVars, currentDate, runVars, availabilityGrid, cadenceStartDates,
                  attemptVars, scheduled, result, atCall, freeAtCourse >>

\* generateSchedule after the forEach: the sort, the calendar grid, the
\* statistics and the return.
GenerateScheduleReturn ==
  /\ pc = "forEach"
  /\ courseIdx > Len(courses)
  /\ scheduledSessions' = SortSessions(scheduledSessions)
  /\ \E statistics \in CalculateStatistics(availabilityGrid, scheduledSessions') :
       result' = Some([ scheduledSessions |-> scheduledSessions',
                        calendarData |-> GenerateCalendarGrid(scheduledSessions',
                                                              quarterDates),
                        statistics |-> statistics ])
  /\ pc' = "done"
  /\ UNCHANGED << inputVars, callVars, currentDate, runVars, availabilityGrid, courseHistory,
                  courseVars, courseSessions, attemptVars, scheduled, atCall,
                  freeAtCourse >>

Next ==
  \/ GenerateSchedule
  \/ ScheduleCourse
  \/ CadenceLoop
  \/ CadenceLoopEnd
  \/ ScheduleCourseSessions
  \/ BookSession
  \/ AfterAttempt
  \/ GenerateScheduleReturn

Spec == Init /\ [][Next]_vars


\* ------------------------------------------- generateSchedule called twice

\* generateSchedule(courses, quarter, year) has just been called, and will
\* be called a second time with the same arguments.
InitTwice ==
  /\ courses \in UNION {ListsOfLength(n) : n \in 0..MaxRepeatedCourses}
  /\ quarter \in QuarterIds
  /\ year = FiscalYear
  /\ pc = "generateSchedule"
  /\ Locals0

\* The first call has returned: its result is kept and generateSchedule is
\* called again with the same arguments; every local starts afresh.
CallAgain ==
  /\ pc = "done"
  /\ firstResult = Null
  /\ firstResult' = result
  /\ UNCHANGED << aloneRun, quarterIdx >>
  /\ financialYearStart' = 0
  /\ quarterDates' = << >>
  /\ availabilityGrid' = NewMap
  /\ courseHistory' = NewMap
  /\ scheduledSessions' = << >>
  /\ courseIdx' = 0
  /\ courseSessions' = << >>
  /\ cadenceStartDates' = << >>
  /\ cadenceIdx' = 0
  /\ availableDates' = << >>
  /\ dateIdx' = 0
  /\ suitableSlot' = Null
  /\ sessions' = << >>
  /\ currentSessionDate' = 0
  /\ sessionNum' = 0
  /\ scheduled' = << >>
  /\ result' = Null
  /\ atCall' = NoSnapshot
  /\ freeAtCourse' = 0
  /\ currentDate' = 0
  /\ pc' = "generateSchedule"
  /\ UNCHANGED inputVars

NextTwice == Next \/ CallAgain

SpecTwice == InitTwice /\ [][NextTwice]_vars

\* ------------------------------ a quarter on its own and in App's year loop

\* Courses of the full-year runs.
YearCatalog ==
  { Course(Leadership, 26, 2),
    Course(AdvancedFI, 13, 2) }

\* The lists of n distinct courses of YearCatalog.
RECURSIVE YearListsOfLength(_)
YearListsOfLength(n) ==
  IF n = 0 THEN {<< >>}
  ELSE {Append(l, c) : l \in YearListsOfLength(n - 1), c \in YearCatalog} \
         {Append(l, l[i]) : l \in YearListsOfLength(n - 1), i \in 1..(n - 1)}

\* const quarters = ["Q1", "Q2", "Q3", "Q4"]
AppQuarters == << "Q1", "Q2", "Q3", "Q4" >>

\* generateSchedule is called for one quarter, before any other run.
InitYear ==
  /\ courses \in UNION {YearListsOfLength(n) : n \in 0..MaxYearCourses}
  /\ quarter \in {AppQuarters[i] : i \in 1..Len(AppQuarters)}
  /\ year = FiscalYear
  /\ pc = "generateSchedule"
  /\ Locals0

\* The run of the quarter on its own has returned and is kept; App's loop
\* over the quarters begins with the same courses and year.  What the
\* returned call left in its locals stays as it is.
StartFullYear ==
  /\ pc = "done"
  /\ aloneRun = Null
  /\ aloneRun' = Some([quarter |-> quarter, result |-> result])
  /\ quarterIdx' = 1
  /\ quarter' = AppQuarters[1]
  /\ pc' = "generateSchedule"
  /\ UNCHANGED << courses, year, firstResult, currentDate, runVars,
                  availabilityGrid, courseHistory, scheduledSessions, courseVars,
                  courseSessions, attemptVars, scheduled, result, atCall,
                  freeAtCourse >>

\* The loop's next iteration, up to the quarter that also ran on its own.
NextQuarter ==
  /\ pc = "done"
  /\ aloneRun # Null
  /\ quarter # aloneRun[1].quarter
  /\ quarterIdx < Len(AppQuarters)
  /\ quarterIdx' = quarterIdx + 1
  /\ quarter' = AppQuarters[quarterIdx + 1]
  /\ pc' = "generateSchedule"
  /\ UNCHANGED << courses, year, firstResult, aloneRun, currentDate, runVars,
                  availabilityGrid, courseHistory, scheduledSessions, courseVars,
                  courseSessions, attemptVars, scheduled, result, atCall,
                  freeAtCourse >>

NextYear == Next \/ StartFullYear \/ NextQuarter

SpecYear == InitYear /\ [][NextYear]_vars

\* ------------------------------------------- a list, then the list and one more

\* Courses that compete for the same slots, and a special-rules course.
PrefixCatalog ==
  { Course(Leadership, 26, 2),
    Course(FinancialPlanning, 26, 3),
    Course(AdvancedFI, 13, 2) }

\* The lists of n distinct courses of PrefixCatalog.
RECURSIVE PrefixListsOfLength(_)
PrefixListsOfLength(n) ==
  IF n = 0 THEN {<< >>}
  ELSE {Append(l, c) : l \in PrefixListsOfLength(n - 1), c \in PrefixCatalog} \
         {Append(l, l[i]) : l \in PrefixListsOfLength(n - 1), i \in 1..(n - 1)}

\* generateSchedule is called for the first or the third quarter.
InitPrefix ==
  /\ courses \in UNION {PrefixListsOfLength(n) : n \in 0..MaxPrefixCourses}
  /\ quarter \in {"Q1", "Q3"}
  /\ year = FiscalYear
  /\ pc = "generateSchedule"
  /\ Locals0

\* The call has returned: its result is kept and generateSchedule is called
\* with the same list followed by one more course, for the same quarter;
\* every local starts afresh.
CallWithOneMore ==
  /\ pc = "done"
  /\ firstResult = Null
  /\ firstResult' = result
  /\ \E c \in PrefixCatalog :
       /\ \A i \in 1..Len(courses) : courses[i] # c
       /\ courses' = Append(courses, c)
  /\ UNCHANGED << quarter, year, aloneRun, quarterIdx >>
  /\ financialYearStart' = 0
  /\ quarterDates' = << >>
  /\ availabilityGrid' = NewMap
  /\ courseHistory' = NewMap
  /\ scheduledSessions' = << >>
  /\ courseIdx' = 0
  /\ courseSessions' = << >>
  /\ cadenceStartDates' = << >>
  /\ cadenceIdx' = 0
  /\ availableDates' = << >>
  /\ dateIdx' = 0
  /\ suitableSlot' = Null
  /\ sessions' = << >>
  /\ currentSessionDate' = 0
  /\ sessionNum' = 0
  /\ scheduled' = << >>
  /\ result' = Null
  /\ atCall' = NoSnapshot
  /\ freeAtCourse' = 0
  /\ currentDate' = 0
  /\ pc' = "generateSchedule"

NextPrefix == Next \/ CallWithOneMore

SpecPrefix == InitPrefix /\ [][NextPrefix]_vars

\* ------------------------------------------- two records with one title

\* Records that share a title and differ in cadence and sessions.
SameTitleCatalog ==
  { Course(Leadership, 26, 2), Course(Leadership, 13, 1),
    Course(AdvancedFI, 13, 2), Course(AdvancedFI, 26, 1) }

\* generateSchedule is called with two records of the same title, which may
\* be the same record twice.
InitSameTitle ==
  /\ courses \in {<< a, b >> : a, b \in SameTitleCatalog}
  /\ courses[1].title = courses[2].title
  /\ quarter \in {AppQuarters[i] : i \in 1..Len(AppQuarters)}
  /\ year = FiscalYear
  /\ pc = "generateSchedule"
  /\ Locals0

SpecSameTitle == InitSameTitle /\ [][Next]_vars

\* ------------------------------------------- the quarters of several years

\* Financial years with every alignment of the weekdays and of leap years.
FiscalYears == 2020..2040

\* generateSchedule is called with no course or one course for a quarter of
\* some year.
InitCalendar ==
  /\ courses \in {<< >>} \cup {<< c >> : c \in Catalog}
  /\ quarter \in {AppQuarters[i] : i \in 1..Len(AppQuarters)}
  /\ year \in FiscalYears
  /\ pc = "generateSchedule"
  /\ Locals0

\* The run up to the return of calculateCadenceStartDates, and the whole
\* run when there is no course.
NextCalendar ==
  \/ GenerateSchedule
  \/ ScheduleCourse
  \/ CadenceLoop
  \/ CadenceLoopEnd
  \/ GenerateScheduleReturn

SpecCalendar == InitCalendar /\ [][NextCalendar]_vars

\* ------------------------------------------- calculateStatistics on its own

\* Dates with short slot lists: three dates restricted to the slots before
\* 08:30 (three slots each) and the 4th of July (no slot).
StatDatePool ==
  << NewDate(FiscalYear, 3, 17), NewDate(FiscalYear, 4, 22),
     NewDate(FiscalYear, 5, 19), NewDate(FiscalYear, 6, 4) >>

\* The ascending lists of at most MaxStatDates dates of the pool.
StatDateLists ==
  { LET Chosen(date) == \E i \in picked : StatDatePool[i] = date
    IN  SelectSeq(StatDatePool, Chosen) :
      picked \in {S \in SUBSET (1..Len(StatDatePool)) : Cardinality(S) <= MaxStatDates} }

\* The slots of the grid of the dates, as (date index, slot index) pairs.
StatPositions(dates) ==
  UNION {{<< d, i >> : i \in 1..Len(GetAvailableTimeSlots(dates[d]))} : d \in 1..Len(dates)}

\* The session that holds slot i of the date.
StatSession(date, i) ==
  [ date                |-> date,
    courseName          |-> Leadership,
    sessionNumber       |-> 1,
    startTime           |-> GetAvailableTimeSlots(date)[i].start,
    endTime             |-> GetAvailableTimeSlots(date)[i].end,
    instructorFirstName |-> "",
    instructorLastName  |-> "" ]

\* The grid with the slots at the positions (date index, slot index) booked.
BookPositions(grid, booked) ==
  LET IndexOfKey(key) == CHOOSE d \in 1..Len(grid.keys) : grid.keys[d] = key
      Booked(slot) == [ start     |-> slot.start,
                        end       |-> slot.end,
                        available |-> FALSE,
                        session   |-> Some([ course |-> Leadership,
                                             sessionNumber |-> 1 ]) ]
  IN  [ keys |-> grid.keys,
        get  |-> [key \in DOMAIN grid.get |->
                    [ date  |-> grid.get[key].date,
                      slots |-> [i \in 1..Len(grid.get[key].slots) |->
                                   IF << IndexOfKey(key), i >> \in booked
                                   THEN Booked(grid.get[key].slots[i])
                                   ELSE grid.get[key].slots[i]] ]] ]

\* The grid of the dates after the slots at the positions were booked.
StatGrid(dates, booked) == BookPositions(InitializeAvailabilityGrid(dates), booked)

\* The sessions of the booked positions, in date and slot order.
StatSessions(dates, booked) ==
  LET Before(p, q) == p[1] < q[1] \/ (p[1] = q[1] /\ p[2] < q[2])
      Nth(n) == CHOOSE p \in booked : Cardinality({q \in booked : Before(q, p)}) = n - 1
  IN  [n \in 1..Cardinality(booked) |-> StatSession(dates[Nth(n)[1]], Nth(n)[2])]

\* calculateStatistics is about to be called on a grid and its sessions.
InitStats ==
  /\ courses = << >>
  /\ quarter = "Q1"
  /\ year = FiscalYear
  /\ financialYearStart = GetFinancialYearStart(FiscalYear)
  /\ \E dates \in StatDateLists :
       \E booked \in SUBSET StatPositions(dates) :
         /\ quarterDates = dates
         /\ availabilityGrid = StatGrid(dates, booked)
         /\ scheduledSessions = StatSessions(dates, booked)
  /\ courseHistory = NewMap
  /\ courseIdx = 1
  /\ courseSessions = << >>
  /\ cadenceStartDates = << >>
  /\ cadenceIdx = 0
  /\ availableDates = << >>
  /\ dateIdx = 0
  /\ suitableSlot = Null
  /\ sessions = << >>
  /\ currentSessionDate = 0
  /\ sessionNum = 0
  /\ scheduled = << >>
  /\ result = Null
  /\ atCall = NoSnapshot
  /\ freeAtCourse = 0
  /\ firstResult = Null
  /\ aloneRun = Null
  /\ quarterIdx = 0
  /\ currentDate = 0
  /\ pc = "calculateStatistics"

\* calculateStatistics(availabilityGrid, sessions) returns.
CalculateStatisticsCall ==
  /\ pc = "calculateStatistics"
  /\ \E statistics \in CalculateStatistics(availabilityGrid, scheduledSessions) :
       result' = Some([statistics |-> statistics])
  /\ pc' = "calculated"
  /\ UNCHANGED << inputVars, callVars, currentDate, runVars, availabilityGrid, courseHistory,
                  scheduledSessions, courseVars, courseSessions, attemptVars,
                  scheduled, atCall, freeAtCourse >>

NextStats == CalculateStatisticsCall

SpecStats == InitStats /\ [][NextStats]_vars

\* ------------------------------------------- rollbackSessions on its own

\* The sets of at most two slots of the pool's dates, as (pool index, slot
\* index) pairs.
PoolPositionSets ==
  {S \in SUBSET StatPositions(StatDatePool) : Cardinality(S) <= 2}

\* rollbackSessions is about to be called on a grid in which some slots are
\* booked, with a list of sessions whose slots are booked, free, or on a
\* date the grid does not have.
InitRelease ==
  /\ courses = << >>
  /\ quarter = "Q1"
  /\ year = FiscalYear
  /\ financialYearStart = GetFinancialYearStart(FiscalYear)
  /\ \E dates \in StatDateLists :
       \E booked \in {S \in SUBSET StatPositions(dates) : Cardinality(S) <= 2} :
         /\ quarterDates = dates
         /\ availabilityGrid = StatGrid(dates, booked)
         /\ scheduledSessions = StatSessions(dates, booked)
  /\ \E released \in PoolPositionSets :
       sessions = StatSessions(StatDatePool, released)
  /\ courseHistory = NewMap
  /\ courseIdx = 1
  /\ courseSessions = << >>
  /\ cadenceStartDates = << >>
  /\ cadenceIdx = 0
  /\ availableDates = << >>
  /\ dateIdx = 0
  /\ suitableSlot = Null
  /\ currentSessionDate = 0
  /\ sessionNum = 0
  /\ scheduled = << >>
  /\ result = Null
  /\ atCall = NoSnapshot
  /\ freeAtCourse = 0
  /\ firstResult = Null
  /\ aloneRun = Null
  /\ quarterIdx = 0
  /\ currentDate = 0
  /\ pc = "rollbackSessions"

\* rollbackSessions(sessions, availabilityGrid) returns.
RollbackSessionsCall ==
  /\ pc = "rollbackSessions"
  /\ availabilityGrid' = RollbackSessions(sessions, availabilityGrid)
  /\ pc' = "rolledBack"
  /\ UNCHANGED << inputVars, callVars, currentDate, runVars, courseHistory,
                  scheduledSessions, courseVars, courseSessions, attemptVars,
                  scheduled, result, atCall, freeAtCourse >>

\* rollbackSessions is called again with the same sessions.
RollbackSessionsAgain ==
  /\ pc = "rolledBack"
  /\ availabilityGrid' = RollbackSessions(sessions, availabilityGrid)
  /\ pc' = "rolledBackTwice"
  /\ UNCHANGED << inputVars, callVars, currentDate, runVars, courseHistory,
                  scheduledSessions, courseVars, courseSessions, attemptVars,
                  scheduled, result, atCall, freeAtCourse >>

NextRelease == RollbackSessionsCall \/ RollbackSessionsAgain

SpecRelease == InitRelease /\ [][NextRelease]_vars


\* ------------------------------- initializeAvailabilityGrid on a single date

\* Every date of the calendar years FiscalYear and FiscalYear + 1, weekends
\* included.
SlotDates == NewDate(FiscalYear, 0, 1)..NewDate(FiscalYear + 1, 11, 31)

\* initializeAvailabilityGrid is about to be called with a list of one date.
InitSlots ==
  /\ courses = << >>
  /\ quarter = "Q1"
  /\ year = FiscalYear
  /\ financialYearStart = GetFinancialYearStart(FiscalYear)
  /\ quarterDates \in {<< d >> : d \in SlotDates}
  /\ availabilityGrid = NewMap
  /\ courseHistory = NewMap
  /\ scheduledSessions = << >>
  /\ courseIdx = 0
  /\ courseSessions = << >>
  /\ cadenceStartDates = << >>
  /\ cadenceIdx = 0
  /\ availableDates = << >>
  /\ dateIdx = 0
  /\ suitableSlot = Null
  /\ sessions = << >>
  /\ currentSessionDate = 0
  /\ sessionNum = 0
  /\ scheduled = << >>
  /\ result = Null
  /\ atCall = NoSnapshot
  /\ freeAtCourse = 0
  /\ firstResult = Null
  /\ aloneRun = Null
  /\ quarterIdx = 0
  /\ currentDate = 0
  /\ pc = "initializeAvailabilityGrid"

\* initializeAvailabilityGrid(dates) returns the grid.
InitializeAvailabilityGridCall ==
  /\ pc = "initializeAvailabilityGrid"
  /\ availabilityGrid' = InitializeAvailabilityGrid(quarterDates)
  /\ pc' = "initialized"
  /\ UNCHANGED << inputVars, callVars, currentDate, runVars, courseHistory,
                  scheduledSessions, courseVars, courseSessions, attemptVars,
                  scheduled, result, atCall, freeAtCourse >>

NextSlots == InitializeAvailabilityGridCall

SpecSlots == InitSlots /\ [][NextSlots]_vars


\* ------------------------------------ scheduleCourse on a two-slot calendar

\* The first n weekdays on or after the start date, in date order.
WeekdaysFrom(start, n) ==
  SubSeq(SelectSeq([i \in 1..(2 * n) |-> AddDays(start, i - 1)], IsWeekday), 1, n)

\* Quarters of the scenario: 5 to MaxScenarioDays consecutive weekdays that
\* begin on a day of the week of Monday 7 April.
ScenarioQuarters ==
  {WeekdaysFrom(AddDays(NewDate(FiscalYear, 3, 7), k), n) :
     k \in 0..4, n \in 5..MaxScenarioDays}

\* Slot lists of the scenario: two slots a day, one hour or four hours apart.
ScenarioSlotLists ==
  { << HourSlot(9), HourSlot(10) >>, << HourSlot(9), HourSlot(13) >> }

\* The grid initializeAvailabilityGrid builds when every date has the slots.
ScenarioGrid(dates, slots) ==
  [ keys |-> [i \in 1..Len(dates) |-> FormatDate(dates[i])],
    get  |-> [k \in {FormatDate(dates[i]) : i \in 1..Len(dates)} |->
                [ date  |-> dates[CHOOSE i \in 1..Len(dates) : FormatDate(dates[i]) = k],
                  slots |-> [i \in 1..Len(slots) |->
                               [ start     |-> slots[i].start,
                                 end       |-> slots[i].end,
                                 available |-> TRUE,
                                 session   |-> Null ]] ]] ]

\* The one course of the scenario.
ScenarioCourse == Course(Leadership, 1, 2)

\* generateSchedule has built the grid of a scenario quarter and is about
\* to process the course; nothing is booked and there is no history.
InitScenario ==
  /\ courses = << ScenarioCourse >>
  /\ quarter = "Q1"
  /\ year = FiscalYear
  /\ financialYearStart = GetFinancialYearStart(FiscalYear)
  /\ quarterDates \in ScenarioQuarters
  /\ \E slots \in ScenarioSlotLists :
       availabilityGrid = ScenarioGrid(quarterDates, slots)
  /\ courseHistory = NewMap
  /\ scheduledSessions = << >>
  /\ courseIdx = 1
  /\ courseSessions = << >>
  /\ cadenceStartDates = << >>
  /\ cadenceIdx = 0
  /\ availableDates = << >>
  /\ dateIdx = 0
  /\ suitableSlot = Null
  /\ sessions = << >>
  /\ currentSessionDate = 0
  /\ sessionNum = 0
  /\ scheduled = << >>
  /\ result = Null
  /\ atCall = NoSnapshot
  /\ freeAtCourse = 0
  /\ firstResult = Null
  /\ aloneRun = Null
  /\ quarterIdx = 0
  /\ currentDate = 0
  /\ pc = "forEach"

NextScenario ==
  \/ ScheduleCourse
  \/ CadenceLoop
  \/ CadenceLoopEnd
  \/ ScheduleCourseSessions
  \/ BookSession
  \/ AfterAttempt
  \/ GenerateScheduleReturn

SpecScenario == InitScenario /\ [][NextScenario]_vars


\* --------------------------------- the run to its end, on short calendars

\* Courses with a cadence of at least one week and at least one session:
\* a start every week, a single session, and more sessions than a short
\* quarter has weeks.
FairCatalog ==
  { ScenarioCourse,
    Course(AdvancedFI, 2, 1),
    Course(FinancialPlanning, 4, 3) }

\* The lists of n distinct courses of FairCatalog.
RECURSIVE FairListsOfLength(_)
FairListsOfLength(n) ==
  IF n = 0 THEN {<< >>}
  ELSE {Append(l, c) : l \in FairListsOfLength(n - 1), c \in FairCatalog} \
         {Append(l, l[i]) : l \in FairListsOfLength(n - 1), i \in 1..(n - 1)}

\* One business week, and a week and three days, from Monday 7 April.
FairQuarters ==
  { WeekdaysFrom(NewDate(FiscalYear, 3, 7), 5),
    WeekdaysFrom(NewDate(FiscalYear, 3, 7), 8) }

\* generateSchedule has built the grid and is about to process the courses.
InitFair ==
  /\ courses \in UNION {FairListsOfLength(n) : n \in 0..MaxFairCourses}
  /\ quarter = "Q1"
  /\ year = FiscalYear
  /\ financialYearStart = GetFinancialYearStart(FiscalYear)
  /\ quarterDates \in FairQuarters
  /\ \E slots \in ScenarioSlotLists :
       availabilityGrid = ScenarioGrid(quarterDates, slots)
  /\ courseHistory = NewMap
  /\ scheduledSessions = << >>
  /\ courseIdx = 1
  /\ courseSessions = << >>
  /\ cadenceStartDates = << >>
  /\ cadenceIdx = 0
  /\ availableDates = << >>
  /\ dateIdx = 0
  /\ suitableSlot = Null
  /\ sessions = << >>
  /\ currentSessionDate = 0
  /\ sessionNum = 0
  /\ scheduled = << >>
  /\ result = Null
  /\ atCall = NoSnapshot
  /\ freeAtCourse = 0
  /\ firstResult = Null
  /\ aloneRun = Null
  /\ quarterIdx = 0
  /\ currentDate = 0
  /\ pc = "forEach"

\* generateSchedule is synchronous code on one thread: while it has not
\* returned, its next statement is executed.
SpecFair == InitFair /\ [][NextScenario]_vars /\ WF_vars(NextScenario)


\* ------------------------------------------------------------ properties

\* The session list generateSchedule returned.
Returned == result[1].scheduledSessions

\* Indices of the sessions of list that have the date key and start time.
SessionsAt(list, dateKey, startTime) ==
  {i \in 1..Len(list) : FormatDate(list[i].date) = dateKey /\ list[i].startTime = startTime}

\* Some attempt of the finished or running run was rolled back after it had
\* booked at least one session.
PartialRollback == pc = "returned" /\ scheduled = << >> /\ sessions # << >>

\* C1: at the end of a run, for every date of the grid and every slot of
\* that date, the slot is marked occupied if and only if exactly one session
\* of the returned list has that date and that start time.
C1_GridConsistency ==
  pc = "done" =>
    \A dateKey \in DOMAIN availabilityGrid.get :
      LET slots == availabilityGrid.get[dateKey].slots
      IN  \A i \in 1..Len(slots) :
            (~slots[i].available)
              <=> Cardinality(SessionsAt(Returned, dateKey, slots[i].start)) = 1

\* A finished run of two courses that left occupied and free slots.
C1_Witness ==
  /\ pc = "done"
  /\ Len(courses) = 2
  /\ Returned # << >>
  /\ FreeCount(availabilityGrid) > 0

\* C2: no two distinct sessions of the returned list share the same date
\* and start time.
C2_NoDoubleBooking ==
  pc = "done" =>
    \A i, j \in 1..Len(Returned) :
      (Returned[i].date = Returned[j].date
         /\ Returned[i].startTime = Returned[j].startTime) => i = j

\* A finished run in which two instances of one title hold sessions on the
\* same date.
C2_Witness ==
  /\ pc = "done"
  /\ \E i, j \in 1..Len(Returned) :
       /\ i # j
       /\ Returned[i].date = Returned[j].date
       /\ Returned[i].courseName = Returned[j].courseName

\* C3: a placement attempt that returns no sessions leaves the grid (free
\* flags and occupants), the course history and the result list exactly as
\* they were when the attempt began.
C3_AttemptAllOrNothing ==
  (pc = "returned" /\ scheduled = << >>) =>
    /\ availabilityGrid = atCall.grid
    /\ courseHistory = atCall.history
    /\ scheduledSessions = atCall.scheduledSessions
    /\ courseSessions = atCall.courseSessions

\* An attempt has failed after booking some of its weekly sessions, in a
\* grid that holds earlier bookings.
C3_Witness ==
  /\ PartialRollback
  /\ FreeCount(availabilityGrid) < FreeCount(InitializeAvailabilityGrid(quarterDates))

\* The course needs more weekly sessions than the quarter has dates of the
\* weekday left, whatever the candidate start date.
RunTooLong(course) ==
  \A i \in 1..Len(quarterDates) :
    course.sessions >
      Cardinality({j \in i..Len(quarterDates) :
                     GetDay(quarterDates[j]) = GetDay(quarterDates[i])})

\* C4: a course whose session count exceeds the remaining dates of the
\* weekday for every candidate start date gets no session, and the number
\* of free slots after the course is processed is the number before.
C4_TooLongCourseBooksNothing ==
  /\ (pc = "forEach" /\ courseIdx > 1 /\ RunTooLong(courses[courseIdx - 1])) =>
       /\ courseSessions = << >>
       /\ FreeCount(availabilityGrid) = freeAtCourse
  /\ pc = "done" =>
       \A i \in 1..Len(courses) :
         (\A k \in 1..Len(courses) :
            courses[k].title = courses[i].title => RunTooLong(courses[k]))
           => \A n \in 1..Len(Returned) : Returned[n].courseName # courses[i].title

\* Such a course has just been processed, after a course that booked
\* sessions, and its attempts had booked sessions before they failed.
C4_Witness ==
  /\ pc = "forEach"
  /\ courseIdx = 3
  /\ RunTooLong(courses[2])
  /\ scheduledSessions # << >>
  /\ sessions # << >>

\* The positions in the returned list of the first sessions of the
\* instances of a title; the list is ordered by date, then start time.
InstancesOf(title) ==
  {n \in 1..Len(Returned) :
     Returned[n].courseName = title /\ Returned[n].sessionNumber = 1}

\* Minutes between two "HH:MM" times of day.
MinutesApart(time1, time2) ==
  Abs((time1[1] * 60 + time1[2]) - (time2[1] * 60 + time2[2]))

\* C5: in the result of a run, any two instances of the same non-special
\* course that are consecutive when the course's instances are ordered by
\* start date fall on different weekdays and start at least 3 hours apart.
C5_SeparationByStartDate ==
  pc = "done" =>
    \A c \in 1..Len(courses) :
      ~IsFinancialIntelligence(courses[c].title) =>
        \A i, j \in InstancesOf(courses[c].title) :
          (i < j /\ ~\E k \in InstancesOf(courses[c].title) : i < k /\ k < j) =>
            /\ DayName(Returned[i].date) # DayName(Returned[j].date)
            /\ MinutesApart(Returned[i].startTime, Returned[j].startTime) >= 180

\* C6: when an instance is booked for a title that already has history, its
\* start time is at least 3 hours from the start time of the most recently
\* recorded instance of the title and, unless the course is the
\* special-rules course, its weekday differs from that instance's weekday.
C6_SeparationFromLastRecorded ==
  (pc = "returned" /\ scheduled # << >>) =>
    LET title == courses[courseIdx].title
        history == HistoryOf(courseHistory, title)
        lastInstance == history[Len(history)]
    IN  history # << >> =>
          /\ MinutesApart(scheduled[1].startTime, lastInstance.startTime) >= 180
          /\ ~IsFinancialIntelligence(title) =>
               DayName(scheduled[1].date) # lastInstance.dayOfWeek

\* An instance has just been booked for a title with recorded instances.
C6_Witness ==
  /\ pc = "returned"
  /\ scheduled # << >>
  /\ HistoryOf(courseHistory, courses[courseIdx].title) # << >>

\* C7: every session of the result whose title contains "financial
\* intelligence" in any letter case, whatever its session number, is on a
\* Tuesday or a Wednesday and starts at an hour h with 10 <= h < 13.
C7_SpecialCourseWindow ==
  pc = "done" =>
    \A n \in 1..Len(Returned) :
      IsFinancialIntelligence(Returned[n].courseName) =>
        /\ DayName(Returned[n].date) \in {"TUESDAY", "WEDNESDAY"}
        /\ 10 <= Returned[n].startTime[1]
        /\ Returned[n].startTime[1] < 13

\* A finished run whose result holds a later weekly session of such a
\* course, next to sessions of another course.
C7_Witness ==
  /\ pc = "done"
  /\ \E n \in 1..Len(Returned) :
       /\ IsFinancialIntelligence(Returned[n].courseName)
       /\ Returned[n].sessionNumber = 2
  /\ \E n \in 1..Len(Returned) : ~IsFinancialIntelligence(Returned[n].courseName)

\* C8: the special-rules course repeats a weekday across instances: the
\* result of a run that schedules such a course holds two instances of its
\* title that start on the same weekday.
C8_SpecialCourseRepeatsWeekday ==
  pc = "done" =>
    \A c \in 1..Len(courses) :
      IsFinancialIntelligence(courses[c].title) =>
        \E i, j \in InstancesOf(courses[c].title) :
          i # j /\ DayName(Returned[i].date) = DayName(Returned[j].date)

\* The slots of the grid, as (date key, index) pairs, and the free ones.
GridSlots(grid) ==
  UNION {{<< key, i >> : i \in 1..Len(grid.get[key].slots)} : key \in DOMAIN grid.get}

FreeSlots(grid) ==
  {slot \in GridSlots(grid) : grid.get[slot[1]].slots[slot[2]].available}

\* The statistics generateSchedule or calculateStatistics returned.
Statistics == result[1].statistics

\* C9: the statistics of a run satisfy totalAvailableSlots =
\* slotsAfterScheduling + totalScheduledSessions, with totalScheduledSessions
\* the length of the session list and slotsAfterScheduling the number of
\* slots still free in the grid.
C9_SlotAccounting ==
  pc = "done" =>
    /\ Statistics.totalAvailableSlots
         = Statistics.slotsAfterScheduling + Statistics.totalScheduledSessions
    /\ Statistics.totalScheduledSessions = Len(Returned)
    /\ Statistics.slotsAfterScheduling = Cardinality(FreeSlots(availabilityGrid))

\* The statistics of a finished run that booked sessions of two courses.
C9_Witness ==
  /\ pc = "done"
  /\ Statistics.totalScheduledSessions > 2
  /\ \E m, n \in 1..Len(Returned) : Returned[m].courseName # Returned[n].courseName

\* C10: utilizationPercentage is (totalSlots - freeSlots) / totalSlots * 100
\* rounded to two decimals, lies between 0 and 100 inclusive, and is 0 when
\* the grid has no slot at all.  The percentage is held in hundredths.
C10_UtilizationPercentage ==
  pc \in {"calculated", "done"} =>
    LET totalSlots == Cardinality(GridSlots(availabilityGrid))
        used == totalSlots - Cardinality(FreeSlots(availabilityGrid))
        percent == Statistics.utilizationPercentage
    IN  /\ totalSlots = 0 => percent = 0
        /\ totalSlots > 0 => 2 * Abs(percent * totalSlots - used * 10000) <= totalSlots
        /\ 0 <= percent
        /\ percent <= 10000

\* Statistics of a partly booked grid whose percentage is rounded up.
C10_Witness ==
  /\ pc = "calculated"
  /\ Cardinality(FreeSlots(availabilityGrid)) > 0
  /\ LET totalSlots == Cardinality(GridSlots(availabilityGrid))
         used == totalSlots - Cardinality(FreeSlots(availabilityGrid))
     IN  2 * ((used * 10000) % totalSlots) > totalSlots

\* The quarter holds two dates of the same weekday.
RepeatsWeekday ==
  \E i, j \in 1..Len(quarterDates) :
    i # j /\ GetDay(quarterDates[i]) = GetDay(quarterDates[j])

\* The quarter is one business week: Monday to Friday.
SingleBusinessWeek == Len(quarterDates) = 5 /\ GetDay(quarterDates[1]) = 1

\* Every date of the grid has two slots, less than three hours apart.
TwoCloseSlots ==
  \A key \in DOMAIN availabilityGrid.get :
    LET slots == availabilityGrid.get[key].slots
    IN  Len(slots) = 2 /\ MinutesApart(slots[1].start, slots[2].start) < 180

\* What the scenario expects of the finished run of one course (cadence 1,
\* 2 sessions, no history) on a grid of two slots per weekday.
ScenarioOutcome ==
  /\ RepeatsWeekday =>
       /\ Len(Returned) = 2
       /\ Returned[1].sessionNumber = 1
       /\ Returned[2].sessionNumber = 2
       /\ Returned[2].date = Returned[1].date + 7
       /\ DayName(Returned[2].date) = DayName(Returned[1].date)
       /\ Cardinality(FreeSlots(availabilityGrid)) = 2 * Len(quarterDates) - 2
  /\ SingleBusinessWeek =>
       /\ Returned = << >>
       /\ Cardinality(FreeSlots(availabilityGrid)) = 2 * Len(quarterDates)

FullDayExclusion(date) ==
  LET month == Civil(date)[2]
      day == Civil(date)[3]
  IN  \/ month = 1 /\ day = 1
      \/ month = 7 /\ day = 4
      \/ month = 11 /\ GetDay(date) = 4 /\ day >= 22 /\ day <= 28
      \/ month = 12 /\ day = 25

\* C12: a full-day exclusion date has an empty slot list in the grid, and
\* no session of the result, first or later of its instance, has that date.
C12_NoSessionOnExclusionDate ==
  /\ \A key \in DOMAIN availabilityGrid.get :
       FullDayExclusion(availabilityGrid.get[key].date) =>
         availabilityGrid.get[key].slots = << >>
  /\ pc = "done" =>
       \A n \in 1..Len(Returned) : ~FullDayExclusion(Returned[n].date)

\* A finished run over a quarter with an exclusion date, with sessions on
\* the day before it and on the same weekday a week later.
C12_Witness ==
  /\ pc = "done"
  /\ \E i \in 1..Len(quarterDates) :
       /\ FullDayExclusion(quarterDates[i])
       /\ \E n \in 1..Len(Returned) : Returned[n].date = quarterDates[i] - 1
       /\ \E n \in 1..Len(Returned) : Returned[n].date = quarterDates[i] + 7

\* The cutoff of a partial-restriction date, in minutes of the day: 13:00
\* on 24 and 31 December, 08:30 on 17 April, 22 May and 19 June; 0 for any
\* other date.
CutoffMinutes(date) ==
  LET month == Civil(date)[2]
      day == Civil(date)[3]
  IN  IF month = 12 /\ day \in {24, 31} THEN 13 * 60
      ELSE IF << month, day >> \in {<< 4, 17 >>, << 5, 22 >>, << 6, 19 >>} THEN 8 * 60 + 30
      ELSE 0

\* C13: on a partial-restriction date with cutoff T, no session of the
\* result, first or later of its instance, starts at T or later.
C13_NoSessionAfterCutoff ==
  pc = "done" =>
    \A n \in 1..Len(Returned) :
      CutoffMinutes(Returned[n].date) > 0 =>
        Returned[n].startTime[1] * 60 + Returned[n].startTime[2]
          < CutoffMinutes(Returned[n].date)

\* A finished run with the second weekly session of an instance on a
\* partial-restriction date, the instance having started on a plain date.
C13_Witness ==
  /\ pc = "done"
  /\ \E m, n \in 1..Len(Returned) :
       /\ Returned[n].sessionNumber = 2
       /\ CutoffMinutes(Returned[n].date) > 0
       /\ Returned[m].sessionNumber = 1
       /\ Returned[m].courseName = Returned[n].courseName
       /\ Returned[m].startTime = Returned[n].startTime
       /\ Returned[m].date = Returned[n].date - 7
       /\ CutoffMinutes(Returned[m].date) = 0

\* The (date, start time) pairs of the occupied slots of the grid.
OccupiedPairs ==
  UNION { LET day == availabilityGrid.get[key]
          IN  {<< day.date, day.slots[i].start >> :
                 i \in {j \in 1..Len(day.slots) : ~day.slots[j].available}} :
          key \in DOMAIN availabilityGrid.get }

\* The (date, start time) pairs of the sessions of a list.
PairsOf(list) == {<< list[n].date, list[n].startTime >> : n \in 1..Len(list)}

\* No two sessions of the list have the same date and start time.
OnePerSlot(list) == Cardinality(PairsOf(list)) = Len(list)

\* The sessions booked so far, wherever the run holds them: the result
\* list of generateSchedule, the list of the course scheduleCourse is
\* processing, and the list of the attempt that is running or has just
\* returned.
HeldSessions ==
  scheduledSessions
    \o (IF pc \in {"attempt", "book", "returned"} THEN courseSessions ELSE << >>)
    \o (IF pc = "book" THEN sessions ELSE IF pc = "returned" THEN scheduled ELSE << >>)

\* C14, as stated: at every point of a run each date and slot is occupied
\* by at most one session, and the occupied slots of the grid are the
\* (date, start time) pairs of the sessions currently in the result list.
C14_GridMatchesResultList ==
  /\ OnePerSlot(scheduledSessions)
  /\ OccupiedPairs = PairsOf(scheduledSessions)

\* C14, amended: the same with the sessions of the result list, of the
\* course being processed and of the attempt in progress taken together.
C14_GridMatchesHeldSessions ==
  /\ OnePerSlot(HeldSessions)
  /\ OccupiedPairs = PairsOf(HeldSessions)

\* An attempt is in the middle of its weekly bookings, after instances of
\* this course and of an earlier course were booked.
C14_Witness ==
  /\ pc = "book"
  /\ sessions # << >>
  /\ courseSessions # << >>
  /\ scheduledSessions # << >>

\* C15: every instance committed to the result consists of exactly
\* sessionCount sessions numbered 1..sessionCount in date order, all with
\* the same start and end time and the same weekday, the first on the
\* candidate start date and each following one exactly 7 days after the
\* previous one.
C15_InstanceShape ==
  (pc = "returned" /\ scheduled # << >>) =>
    /\ Len(scheduled) = courses[courseIdx].sessions
    /\ scheduled[1].date = availableDates[dateIdx]
    /\ \A k \in 1..Len(scheduled) :
         /\ scheduled[k].sessionNumber = k
         /\ scheduled[k].courseName = courses[courseIdx].title
         /\ scheduled[k].startTime = scheduled[1].startTime
         /\ scheduled[k].endTime = scheduled[1].endTime
         /\ DayName(scheduled[k].date) = DayName(scheduled[1].date)
         /\ k > 1 => scheduled[k].date = scheduled[k - 1].date + 7

\* An instance of two weekly sessions has just been returned for a course
\* that already holds an instance.
C15_Witness ==
  /\ pc = "returned"
  /\ Len(scheduled) = 2
  /\ courseSessions # << >>

Ended == pc \in {"done", "threw", "typeError"}

\* C17: when the quarter identifier is not one of Q1, Q2, Q3, Q4,
\* generateSchedule raises the invalid-quarter error before the availability
\* grid is created and before any slot is booked, and returns no sessions
\* and no statistics.
C17_InvalidQuarterError ==
  (Ended /\ quarter \notin {"Q1", "Q2", "Q3", "Q4"}) =>
    /\ pc = "threw"
    /\ availabilityGrid = NewMap
    /\ scheduledSessions = << >>
    /\ result = Null

\* What the code does for every identifier other than Q1..Q4: some error
\* is raised before the grid exists, and nothing is returned.
C17_SomeErrorBeforeGrid ==
  /\ (quarter \notin {"Q1", "Q2", "Q3", "Q4"} /\ pc # "generateSchedule") =>
       /\ pc \in {"threw", "typeError"}
       /\ availabilityGrid = NewMap
       /\ scheduledSessions = << >>
       /\ result = Null
  /\ (quarter \in {"Q1", "Q2", "Q3", "Q4"}) => pc \notin {"threw", "typeError"}

\* The cadence start dates the loop of calculateCadenceStartDates leaves:
\* from the first weekday of the financial year, every cadence weeks, up
\* to the quarter's last date.
CadenceDatesAsReturned ==
  pc \in {"attempt", "book", "returned"} =>
    cadenceStartDates =
      CalculateCadenceStartDates(courses[courseIdx], financialYearStart, quarterDates)

\* C18: for every course list in which each course has cadence >= 1 and
\* sessions >= 1, generateSchedule terminates and returns a result: no
\* placement failure or rollback aborts the run, and the cadence-date loop
\* and the candidate-date sweeps all finish.
C18_RunReturns == <>(pc = "done" /\ result # Null)

\* A run has returned the first course's sessions although the second
\* course, with more sessions than the quarter has weeks, had every one of
\* its attempts rolled back.
C18_Witness ==
  /\ pc = "done"
  /\ result # Null
  /\ Len(courses) = 2
  /\ courses[2].sessions = 3
  /\ Returned # << >>

\* Minutes after midnight of an "HH:MM" start time.
StartMinutes(session) == session.startTime[1] * 60 + session.startTime[2]

\* a stands before b by date, or on the same date by start time (or they
\* are equal in both).
InOrder(a, b) ==
  \/ a.date < b.date
  \/ a.date = b.date /\ StartMinutes(a) <= StartMinutes(b)

\* C19: the returned session list is sorted by date ascending and, among
\* sessions on the same date, by start time ascending.
C19_ReturnedListSorted ==
  pc = "done" =>
    \A i \in 1..(Len(Returned) - 1) : InOrder(Returned[i], Returned[i + 1])

\* A returned list in which a session of the second course stands directly
\* before a later session, on the same date, of the first course, whose
\* sessions were all pushed earlier.
C19_Witness ==
  /\ pc = "done"
  /\ Len(courses) = 2
  /\ \E i \in 1..(Len(Returned) - 1) :
       /\ Returned[i].courseName = courses[2].title
       /\ Returned[i + 1].courseName = courses[1].title
       /\ Returned[i].date = Returned[i + 1].date
       /\ StartMinutes(Returned[i]) < StartMinutes(Returned[i + 1])

\* The dates of the grid, in the grid's order.
GridDates ==
  [i \in 1..Len(availabilityGrid.keys) |-> availabilityGrid.get[availabilityGrid.keys[i]].date]

\* The slots of the grid's entry for the date.
SlotsOn(date) == availabilityGrid.get[FormatDate(date)].slots

\* The date has at least one slot and every slot of it is occupied.
IsFullyBooked(date) ==
  /\ Len(SlotsOn(date)) > 0
  /\ \A i \in 1..Len(SlotsOn(date)) : ~SlotsOn(date)[i].available

\* C20: fullyBookedDates contains exactly the grid dates that have at least
\* one slot and whose slots are all occupied at the end of the run, in the
\* grid's date order; a date with an empty slot list is never listed.
C20_FullyBookedDates ==
  pc \in {"calculated", "done"} =>
    /\ Statistics.fullyBookedDates = SelectSeq(GridDates, IsFullyBooked)
    /\ \A i \in 1..Len(Statistics.fullyBookedDates) :
         Len(SlotsOn(Statistics.fullyBookedDates[i])) > 0

\* Statistics of a grid of two fully booked dates and, after them, a date
\* without slots.
C20_Witness ==
  /\ pc = "calculated"
  /\ Len(Statistics.fullyBookedDates) = 2
  /\ Statistics.fullyBookedDates[1] < Statistics.fullyBookedDates[2]
  /\ \E i \in 1..Len(GridDates) : Len(SlotsOn(GridDates[i])) = 0

\* The { start, end } records of the grid's slots for the date, as
\* getAvailableTimeSlots returned them.
SlotsForDate(date) ==
  LET slots == SlotsOn(date)
  IN  [i \in 1..Len(slots) |-> [start |-> slots[i].start, end |-> slots[i].end]]

\* The weekday's template.
TemplateOf(date) == WEEKLY_SCHEDULE[DAY_NAMES[GetDay(date) + 1]]

\* The slot starts strictly before the date's cutoff.
StartsBeforeCutoff(date, slot) ==
  slot.start[1] * 60 + slot.start[2] < CutoffMinutes(date)

\* C21: getAvailableTimeSlots returns the empty list for Saturday and
\* Sunday; the empty list for a full-day exclusion date; for a
\* partial-restriction date exactly the template slots whose start time is
\* strictly before the cutoff; otherwise the weekday's full template.
C21_SlotsForDate ==
  pc = "initialized" =>
    LET date == quarterDates[1]
        Early(slot) == StartsBeforeCutoff(date, slot)
    IN  SlotsForDate(date) =
          IF GetDay(date) \in {0, 6} THEN << >>
          ELSE IF FullDayExclusion(date) THEN << >>
          ELSE IF CutoffMinutes(date) > 0 THEN SelectSeq(TemplateOf(date), Early)
          ELSE TemplateOf(date)

\* The slots of a date restricted from 13:00 whose template has a slot at
\* 13:00: the last slot kept is the one at 12:00.
C21_Witness ==
  /\ pc = "initialized"
  /\ CutoffMinutes(quarterDates[1]) = 13 * 60
  /\ \E i \in 1..Len(TemplateOf(quarterDates[1])) :
       TemplateOf(quarterDates[1])[i].start = << 13, 0 >>
  /\ SlotsForDate(quarterDates[1]) # << >>
  /\ SlotsForDate(quarterDates[1])[Len(SlotsForDate(quarterDates[1]))].start = << 12, 0 >>

C23_CoursesNeverModified == [][courses' = courses]_vars

\* A run of two courses has returned sessions of both.
C23_Witness ==
  /\ pc = "done"
  /\ Len(courses) = 2
  /\ \A c \in 1..2 :
       \E n \in 1..Len(Returned) : Returned[n].courseName = courses[c].title

\* The calendar year and the months of the quarter of financial year y.
CalendarYearOf(q, y) == IF q = "Q4" THEN y + 1 ELSE y

MonthsOf(q) ==
  CASE q = "Q1" -> {4, 5, 6}
    [] q = "Q2" -> {7, 8, 9}
    [] q = "Q3" -> {10, 11, 12}
    [] q = "Q4" -> {1, 2, 3}

\* The Monday-to-Friday dates from the first day of the quarter's first
\* month to the last day of its third month.
BusinessDatesOf(q, y) ==
  {d \in NewDate(y, 0, 1)..NewDate(y + 2, 0, 1) :
     /\ Civil(d)[1] = CalendarYearOf(q, y)
     /\ Civil(d)[2] \in MonthsOf(q)
     /\ GetDay(d) \in 1..5}

\* The dates of a list, as a set.
DatesIn(list) == {list[i] : i \in 1..Len(list)}

\* C24: getWeekdaysInQuarter returns, in strictly ascending order and
\* without duplicates, exactly the Monday-to-Friday dates between the first
\* day of the quarter's first month and the last day of its third month,
\* holidays included.
C24_QuarterDates ==
  pc \in {"forEach", "done"} =>
    /\ \A i \in 1..(Len(quarterDates) - 1) : quarterDates[i] < quarterDates[i + 1]
    /\ DatesIn(quarterDates) = BusinessDatesOf(quarter, year)

\* The dates of a Q4 with a leap day and with New Year's Day on a weekday:
\* both are in the list.
C24_Witness ==
  /\ pc = "forEach"
  /\ quarter = "Q4"
  /\ \E i \in 1..Len(quarterDates) : Civil(quarterDates[i])[2] = 2 /\ Civil(quarterDates[i])[3] = 29
  /\ \E i \in 1..Len(quarterDates) :
       /\ Civil(quarterDates[i])[2] = 1 /\ Civil(quarterDates[i])[3] = 1
       /\ availabilityGrid.get[FormatDate(quarterDates[i])].slots = << >>

\* C25: for fiscal year Y the quarters Q1, Q2 and Q3 lie in April-December
\* of calendar year Y and Q4 in January-March of Y + 1, so every date of
\* every quarter lies on or after the fiscal epoch (1 April Y) and on or
\* before the fiscal-year end (31 March Y + 1) used by cadence generation,
\* and the four quarters' date lists are pairwise disjoint.
C25_QuartersWithinFiscalYear ==
  pc \in {"forEach", "done"} =>
    /\ Civil(financialYearStart) = << year, 4, 1 >>
    /\ Civil(FinancialYearEnd(financialYearStart)) = << year + 1, 3, 31 >>
    /\ \A i \in 1..Len(quarterDates) :
         /\ financialYearStart <= quarterDates[i]
         /\ quarterDates[i] <= FinancialYearEnd(financialYearStart)
         /\ Civil(quarterDates[i])[1] = CalendarYearOf(quarter, year)
         /\ Civil(quarterDates[i])[2] \in MonthsOf(quarter)
    /\ \A i \in 1..Len(AppQuarters) :
         AppQuarters[i] # quarter =>
           DatesIn(GetWeekdaysInQuarter(AppQuarters[i], year)) \cap DatesIn(quarterDates) = {}

\* A Q4 whose last date is the fiscal-year end itself.
C25_Witness ==
  /\ pc = "forEach"
  /\ quarter = "Q4"
  /\ quarterDates # << >>
  /\ quarterDates[Len(quarterDates)] = FinancialYearEnd(financialYearStart)

\* scheduleCourse holds the list calculateCadenceStartDates returned.
CadenceReturned == pc \in {"attempt", "book", "returned"}

\* The first Monday-to-Friday date on or after the fiscal epoch.
FirstBusinessDate ==
  CHOOSE d \in financialYearStart..(financialYearStart + 6) :
    /\ GetDay(d) \in 1..5
    /\ \A e \in financialYearStart..(d - 1) : GetDay(e) \notin 1..5

\* d0 + k * cadence weeks, up to the fiscal-year end and the quarter's last
\* date.
CadenceDatesExpected ==
  {d \in {FirstBusinessDate + 7 * courses[courseIdx].cadence * k : k \in 0..53} :
     /\ d <= NewDate(year + 1, 2, 31)
     /\ d <= quarterDates[Len(quarterDates)]}

\* C26: the cadence start dates of a course are exactly the dates
\* d0 + k * cadence weeks, d0 being the first Monday-to-Friday date on or
\* after the fiscal epoch, that are on or before the fiscal-year end and on
\* or before the quarter's last date; those before the quarter's first date
\* are kept.
C26_CadenceStartDates ==
  CadenceReturned =>
    /\ DatesIn(cadenceStartDates) = CadenceDatesExpected
    /\ \A i \in 1..(Len(cadenceStartDates) - 1) :
         cadenceStartDates[i] < cadenceStartDates[i + 1]

\* A financial year that begins on a weekend, and a quarter with cadence
\* dates before its first date and inside it.
C26_Witness ==
  /\ CadenceReturned
  /\ GetDay(financialYearStart) \in {0, 6}
  /\ Len(cadenceStartDates) >= 2
  /\ cadenceStartDates[1] < quarterDates[1]
  /\ cadenceStartDates[Len(cadenceStartDates)] >= quarterDates[1]

\* The quarter weekdays on or after a cadence date.
CandidatesOf(cadenceDate) == {d \in DatesIn(quarterDates) : d >= cadenceDate}

\* scheduleCourse is about to call scheduleCourseSessions for course k, in
\* the sweep of its ci-th cadence date, at that sweep's di-th candidate date.
AttemptAt(k, ci, di) ==
  /\ pc = "attempt"
  /\ courseIdx = k
  /\ cadenceIdx = ci
  /\ dateIdx = di

\* The attempt at the last candidate date of the last cadence date of
\* course k.
LastAttemptOf(k) ==
  AttemptAt(k, Len(cadenceStartDates), Cardinality(CandidatesOf(cadenceStartDates[cadenceIdx])))

\* The sweep of the current cadence date holds every quarter weekday on or
\* after it, in ascending order.
SweepInOrder ==
  pc = "attempt" =>
    /\ cadenceIdx \in 1..Len(cadenceStartDates)
    /\ dateIdx \in 1..Len(availableDates)
    /\ DatesIn(availableDates) = CandidatesOf(cadenceStartDates[cadenceIdx])
    /\ \A i \in 1..(Len(availableDates) - 1) : availableDates[i] < availableDates[i + 1]

\* The first attempt is at the first candidate of the first cadence date.
\* After an attempt, booked or not, the next attempt is at the next
\* candidate of the sweep, or at the first candidate of the next cadence
\* date when the sweep is over, and scheduleCourse returns only after the
\* last candidate of the last cadence date.
NextCandidate ==
  /\ pc = "cadenceLoop" /\ pc' = "attempt" => cadenceIdx' = 1 /\ dateIdx' = 1
  /\ pc = "returned" /\ pc' = "attempt" =>
       /\ courseIdx' = courseIdx
       /\ IF dateIdx < Len(availableDates)
          THEN cadenceIdx' = cadenceIdx /\ dateIdx' = dateIdx + 1
          ELSE cadenceIdx' = cadenceIdx + 1 /\ dateIdx' = 1
  /\ pc = "returned" /\ pc' = "forEach" =>
       /\ cadenceIdx = Len(cadenceStartDates)
       /\ dateIdx = Len(availableDates)

\* C27: for each cadence start date of a course the engine attempts a
\* placement at every quarter weekday on or after that date, in ascending
\* date order; a successful placement does not end the sweep, and every
\* later candidate date and every later cadence date is still attempted.
C27_EveryCandidateAttempted ==
  /\ []SweepInOrder
  /\ [][NextCandidate]_vars
  /\ \A k \in 1..MaxFairCourses : AttemptAt(k, 1, 1) ~> LastAttemptOf(k)

\* An instance was booked at a candidate date, and the next candidate of
\* the same sweep is attempted; the course has a later cadence date too.
C27_Witness ==
  /\ pc = "attempt"
  /\ dateIdx > 1
  /\ Len(scheduled) > 0
  /\ scheduled[1].date = availableDates[dateIdx - 1]
  /\ cadenceIdx < Len(cadenceStartDates)

\* Minutes after midnight of a time of day.
MinutesOf(time) == time[1] * 60 + time[2]

\* scheduleCourseSessions has searched a slot for the candidate date.
Searched == pc \in {"book", "returned"}

\* The candidate date of the attempt, its slots and the title's history
\* when scheduleCourseSessions was called.
CandidateDate == availableDates[dateIdx]

CandidateSlots == atCall.grid.get[FormatDate(CandidateDate)].slots

HistoryAtCall == HistoryOf(atCall.history, courses[courseIdx].title)

\* The checks on one slot of the candidate date: free; inside the special
\* windows for a special-rules title; for a title with history, another
\* weekday than the last instance's (other titles only) and a start time
\* at least 180 minutes from the last instance's.
IsFree(slot) == slot.available

PassesSpecialWindow(slot) ==
  IsFinancialIntelligence(courses[courseIdx].title) =>
    IsValidForFinancialIntelligence(DayName(CandidateDate), slot.start)

PassesWeekday(slot) ==
  HistoryAtCall # << >> /\ ~IsFinancialIntelligence(courses[courseIdx].title) =>
    DayName(CandidateDate) # HistoryAtCall[Len(HistoryAtCall)].dayOfWeek

PassesThreeHours(slot) ==
  HistoryAtCall # << >> =>
    Abs(MinutesOf(slot.start)
          - MinutesOf(HistoryAtCall[Len(HistoryAtCall)].startTime)) >= 180

PassesAll(slot) ==
  IsFree(slot) /\ PassesSpecialWindow(slot) /\ PassesWeekday(slot) /\ PassesThreeHours(slot)

\* C28: the slot search for a candidate date returns the earliest slot in
\* the date's time order that is free and passes the special-window,
\* weekday and 3-hour checks that apply, and returns no slot only when no
\* slot of the date passes them; for a course with no history every free
\* slot passes the weekday and 3-hour checks.
C28_EarliestPassingSlot ==
  Searched =>
    /\ \A i \in 1..(Len(CandidateSlots) - 1) :
         MinutesOf(CandidateSlots[i].start) < MinutesOf(CandidateSlots[i + 1].start)
    /\ suitableSlot = Null <=> \A i \in 1..Len(CandidateSlots) : ~PassesAll(CandidateSlots[i])
    /\ suitableSlot # Null =>
         \E i \in 1..Len(CandidateSlots) :
           /\ PassesAll(CandidateSlots[i])
           /\ suitableSlot[1] = [ dayOfWeek |-> DayName(CandidateDate),
                                  startTime |-> CandidateSlots[i].start,
                                  endTime   |-> CandidateSlots[i].end ]
           /\ \A j \in 1..Len(CandidateSlots) :
                PassesAll(CandidateSlots[j]) =>
                  MinutesOf(CandidateSlots[i].start) <= MinutesOf(CandidateSlots[j].start)
    /\ HistoryAtCall = << >> =>
         \A i \in 1..Len(CandidateSlots) :
           IsFree(CandidateSlots[i]) =>
             PassesWeekday(CandidateSlots[i]) /\ PassesThreeHours(CandidateSlots[i])

\* The search passed over an earlier free slot of the date that is less
\* than three hours from the last instance, and returned a later one that
\* is not the last passing slot of the date.
C28_Witness ==
  /\ Searched
  /\ suitableSlot # Null
  /\ HistoryAtCall # << >>
  /\ \E i, j \in 1..Len(CandidateSlots) :
       /\ IsFree(CandidateSlots[i]) /\ ~PassesThreeHours(CandidateSlots[i])
       /\ MinutesOf(CandidateSlots[i].start) < MinutesOf(suitableSlot[1].startTime)
       /\ PassesAll(CandidateSlots[j])
       /\ MinutesOf(CandidateSlots[j].start) > MinutesOf(suitableSlot[1].startTime)

\* The attempt at the candidate date was rolled back: a slot had been
\* found and the booking of one of the sessions failed.
AttemptRolledBack == pc = "returned" /\ suitableSlot # Null /\ scheduled = << >>

\* The weekly sessions of the course, from the candidate date on, could all
\* have been booked at the given start time when scheduleCourseSessions was
\* called.
CouldBookAt(start) ==
  \A n \in 0..(courses[courseIdx].sessions - 1) :
    /\ CandidateDate + 7 * n \in DatesIn(quarterDates)
    /\ \E i \in 1..Len(atCall.grid.get[FormatDate(CandidateDate + 7 * n)].slots) :
         LET s == atCall.grid.get[FormatDate(CandidateDate + 7 * n)].slots[i]
         IN  s.start = start /\ s.available

\* While the sessions are being booked the slot is the one the search
\* returned, the loop goes on only by booking one more session, and the
\* attempt after a return is at another candidate.
OneSlotPerAttempt ==
  /\ pc = "book" => suitableSlot' = suitableSlot
  /\ pc = "book" /\ pc' = "book" => Len(sessions') = Len(sessions) + 1
  /\ pc = "returned" /\ pc' = "attempt" =>
       << cadenceIdx', dateIdx' >> # << cadenceIdx, dateIdx >>

\* C29: at most one slot is tried per candidate start date per sweep: when
\* the multi-week booking of the first acceptable slot fails, the attempt is
\* rolled back and the candidate date is treated as failed, without trying
\* any later acceptable slot of the same date.
C29_OneSlotPerCandidateDate ==
  /\ [][OneSlotPerAttempt]_vars
  /\ [](Searched /\ suitableSlot # Null =>
          \A i \in 1..Len(sessions) : sessions[i].startTime = suitableSlot[1].startTime)
  /\ [](AttemptRolledBack =>
          /\ availabilityGrid = atCall.grid
          /\ courseHistory = atCall.history
          /\ courseSessions = atCall.courseSessions)

\* An attempt was rolled back although a later slot of the candidate date
\* passed every check and could have held all the sessions.
C29_Witness ==
  /\ AttemptRolledBack
  /\ \E j \in 1..Len(CandidateSlots) :
       /\ PassesAll(CandidateSlots[j])
       /\ MinutesOf(CandidateSlots[j].start) > MinutesOf(suitableSlot[1].startTime)
       /\ CouldBookAt(CandidateSlots[j].start)

\* The titles of the run's courses.
Titles == {courses[i].title : i \in 1..Len(courses)}

\* The entries recorded for a title, none when the map has no such key.
EntriesOf(map, title) ==
  IF title \in DOMAIN map.get THEN map.get[title] ELSE << >>

\* The instances of a title booked and kept so far in the current run: the
\* first sessions in generateSchedule's list and, while scheduleCourse has
\* not returned, in its own list.
InstancesBooked(title) ==
  LET kept == IF pc \in {"forEach", "done"} THEN scheduledSessions
              ELSE scheduledSessions \o courseSessions
  IN  {n \in 1..Len(kept) : kept[n].courseName = title /\ kept[n].sessionNumber = 1}

\* One step of a run and the history: generateSchedule begins with an empty
\* map; the step after a successful attempt appends to the title's entries
\* one entry with the date, weekday and start time of session 1; no other
\* step changes the map.
HistoryStep ==
  /\ pc = "generateSchedule" /\ pc' = "forEach" => courseHistory' = NewMap
  /\ pc = "returned" /\ Len(scheduled) > 0 =>
       /\ scheduled[1].sessionNumber = 1
       /\ EntriesOf(courseHistory', courses[courseIdx].title) =
            Append(EntriesOf(courseHistory, courses[courseIdx].title),
                   [ startDate |-> scheduled[1].date,
                     dayOfWeek |-> DAY_NAMES[GetDay(scheduled[1].date) + 1],
                     startTime |-> scheduled[1].startTime ])
       /\ \A t \in Titles \ {courses[courseIdx].title} :
            EntriesOf(courseHistory', t) = EntriesOf(courseHistory, t)
  /\ pc # "generateSchedule" /\ ~(pc = "returned" /\ Len(scheduled) > 0) =>
       courseHistory' = courseHistory

\* C30: the history of a course title only grows during a run, starts
\* empty in every run, and gains exactly one entry per successfully booked
\* instance and none per failed attempt; the entry holds the date, weekday
\* and start time of that instance's session 1.
C30_HistoryGrowsByInstance ==
  /\ [][HistoryStep]_vars
  /\ [](pc \in {"forEach", "cadenceLoop", "attempt", "book", "done"} =>
          /\ DOMAIN courseHistory.get \subseteq Titles
          /\ \A t \in Titles :
               Len(EntriesOf(courseHistory, t)) = Cardinality(InstancesBooked(t)))

\* In a later run of the year a title has its second entry, after attempts
\* of that run that failed.
C30_Witness ==
  /\ quarterIdx >= 2
  /\ pc = "attempt"
  /\ Len(scheduled) > 0
  /\ Len(EntriesOf(courseHistory, courses[courseIdx].title)) = 2
  /\ atCall.history # courseHistory
  /\ dateIdx > 2

\* The dates of the quarter on or after the date the loop has reached that
\* fall on the weekday of the chosen slot, and the first of them: the date
\* the session is to be booked on.
TargetDates ==
  {d \in DatesIn(quarterDates) :
     d >= currentSessionDate /\ DAY_NAMES[GetDay(d) + 1] = suitableSlot[1].dayOfWeek}

TargetDate == CHOOSE d \in TargetDates : \A e \in TargetDates : d <= e

\* The slots of the target date that have the chosen start time, whatever
\* their state, and those of them that are free.
SlotsWithStart ==
  IF TargetDates = {} \/ FormatDate(TargetDate) \notin DOMAIN availabilityGrid.get
  THEN {}
  ELSE {i \in 1..Len(availabilityGrid.get[FormatDate(TargetDate)].slots) :
          availabilityGrid.get[FormatDate(TargetDate)].slots[i].start
            = suitableSlot[1].startTime}

FreeSlotsWithStart ==
  {i \in SlotsWithStart : availabilityGrid.get[FormatDate(TargetDate)].slots[i].available}

\* The grid with one slot marked occupied by a session of a course.
Occupied(grid, dateKey, i, title, number) ==
  [grid EXCEPT !.get[dateKey].slots[i] =
     [@ EXCEPT !.available = FALSE,
               !.session = << [course |-> title, sessionNumber |-> number] >>]]

\* One booking: with a free slot of the chosen start time on the target
\* date, that slot and nothing else changes, to occupied by the course and
\* the session number; without one the attempt ends with nothing booked and
\* the grid is as it was when the attempt began.
BookingStep ==
  pc = "book" =>
    IF FreeSlotsWithStart # {}
    THEN /\ \E i \in FreeSlotsWithStart :
              availabilityGrid' =
                Occupied(availabilityGrid, FormatDate(TargetDate), i,
                         courses[courseIdx].title, sessionNum)
         /\ Len(sessions') = Len(sessions) + 1
         /\ sessions'[Len(sessions')].date = TargetDate
    ELSE /\ pc' = "returned"
         /\ scheduled' = << >>
         /\ availabilityGrid' = atCall.grid
         /\ \A slot \in GridSlots(availabilityGrid) :
              availabilityGrid'.get[slot[1]].slots[slot[2]]
                  # availabilityGrid.get[slot[1]].slots[slot[2]] =>
                \E n \in 1..Len(sessions) :
                  /\ FormatDate(sessions[n].date) = slot[1]
                  /\ sessions[n].startTime
                       = availabilityGrid.get[slot[1]].slots[slot[2]].start

\* C31: booking a slot fails, and changes nothing in the grid beyond the
\* rollback of the current attempt, when the target date is not in the
\* grid, when the date has no slot with the requested start time, or when
\* that slot is already occupied; it succeeds only on an existing free slot,
\* which it marks occupied with the course title and session number.
C31_BookingFailsOrMarks == [][BookingStep]_vars

\* An attempt that had booked a session was rolled back because the slot
\* of the next week was occupied by another instance.
C31_Witness ==
  /\ pc = "returned"
  /\ scheduled = << >>
  /\ sessions # << >>
  /\ SlotsWithStart # {}
  /\ FreeSlotsWithStart = {}

\* Some session of the list has the date key and the start time.
Names(list, dateKey, startTime) ==
  \E n \in 1..Len(list) :
    FormatDate(list[n].date) = dateKey /\ list[n].startTime = startTime

\* One call of rollbackSessions: the grid keeps its dates and slots; each
\* slot a session of the list names is free and without occupant afterwards,
\* whatever it was before; every other slot is as before; and the second
\* call changes nothing.
ReleaseStep ==
  pc \in {"rollbackSessions", "rolledBack"} =>
    /\ availabilityGrid'.keys = availabilityGrid.keys
    /\ GridSlots(availabilityGrid') = GridSlots(availabilityGrid)
    /\ \A slot \in GridSlots(availabilityGrid) :
         LET before == availabilityGrid.get[slot[1]].slots[slot[2]]
             after == availabilityGrid'.get[slot[1]].slots[slot[2]]
         IN  IF Names(sessions, slot[1], before.start)
             THEN after = [ start |-> before.start, end |-> before.end,
                            available |-> TRUE, session |-> << >> ]
             ELSE after = before
    /\ pc = "rolledBack" => availabilityGrid' = availabilityGrid

\* C32: releasing a slot is idempotent: releasing a (date, startTime) slot
\* marks it free and clears its occupant whether it was occupied or already
\* free, and releasing it twice leaves the grid in the same state as
\* releasing it once.
C32_ReleaseIdempotent == [][ReleaseStep]_vars

\* Released twice: a slot that was booked, a slot that was free already,
\* both free now, while another booked slot is still booked.
C32_Witness ==
  /\ pc = "rolledBackTwice"
  /\ \E m, n \in 1..Len(sessions) :
       /\ Names(scheduledSessions, FormatDate(sessions[m].date), sessions[m].startTime)
       /\ ~Names(scheduledSessions, FormatDate(sessions[n].date), sessions[n].startTime)
       /\ FormatDate(sessions[n].date) \in DOMAIN availabilityGrid.get
  /\ \E slot \in GridSlots(availabilityGrid) :
       ~availabilityGrid.get[slot[1]].slots[slot[2]].available
  /\ \A slot \in GridSlots(availabilityGrid) :
       Names(sessions, slot[1], availabilityGrid.get[slot[1]].slots[slot[2]].start) =>
         availabilityGrid.get[slot[1]].slots[slot[2]].available

\* The start and end times of the slots of a date of a grid, in their
\* order: all of the date's entry but the free flags and the occupants.
TimesOf(day) == [i \in 1..Len(day.slots) |-> << day.slots[i].start, day.slots[i].end >>]

\* The slots the quarter's dates are seeded with, as (date, index) pairs.
SeededCapacity ==
  UNION {{<< d, i >> : i \in 1..Len(GetAvailableTimeSlots(d))} : d \in DatesIn(quarterDates)}

\* generateSchedule has built the grid and has not begun the first course.
Seeded == pc = "forEach" /\ courseIdx = 1

\* The seeded grid has the seeded capacity, every slot free and without
\* occupant.
SeededFree ==
  Seeded =>
    /\ Cardinality(GridSlots(availabilityGrid)) = Cardinality(SeededCapacity)
    /\ FreeSlots(availabilityGrid) = GridSlots(availabilityGrid)
    /\ \A slot \in GridSlots(availabilityGrid) :
         availabilityGrid.get[slot[1]].slots[slot[2]].session = << >>

\* No step after the seeding changes the dates of the grid or the times of
\* its slots.
GridShapeStep ==
  pc # "generateSchedule" /\ availabilityGrid' # availabilityGrid =>
    /\ availabilityGrid'.keys = availabilityGrid.keys
    /\ DOMAIN availabilityGrid'.get = DOMAIN availabilityGrid.get
    /\ \A key \in DOMAIN availabilityGrid.get :
         availabilityGrid'.get[key] # availabilityGrid.get[key] =>
           /\ availabilityGrid'.get[key].date = availabilityGrid.get[key].date
           /\ TimesOf(availabilityGrid'.get[key]) = TimesOf(availabilityGrid.get[key])

\* C33: throughout a run the set of dates in the grid and, for each date,
\* the list of slots with their start and end times are exactly those seeded
\* at initialization (all slots free at that point); booking, rollback and
\* statistics change only the free flag and occupant of a slot, so
\* totalAvailableSlots computed after allocation equals the capacity seeded
\* before allocation.
C33_GridShapeFixed ==
  /\ []SeededFree
  /\ [][GridShapeStep]_vars
  /\ [](pc = "done" =>
          /\ Statistics.totalAvailableSlots = Cardinality(SeededCapacity)
          /\ Statistics.totalAvailableSlots = Cardinality(GridSlots(availabilityGrid)))

\* A finished run that booked sessions, on a quarter with a date whose slot
\* list was cut by a partial restriction.
C33_Witness ==
  /\ pc = "done"
  /\ Statistics.totalScheduledSessions > 0
  /\ Statistics.slotsAfterScheduling < Statistics.totalAvailableSlots
  /\ \E i \in 1..Len(quarterDates) :
       /\ CutoffMinutes(quarterDates[i]) > 0
       /\ Len(availabilityGrid.get[FormatDate(quarterDates[i])].slots)
            < Len(WEEKLY_SCHEDULE[DAY_NAMES[GetDay(quarterDates[i]) + 1]])

\* The first sessions of the instances of a title among the sessions the
\* run holds.
InstancesHeld(title) ==
  {n \in 1..Len(HeldSessions) :
     HeldSessions[n].courseName = title /\ HeldSessions[n].sessionNumber = 1}

\* C34: in any single run at most one instance is booked for a given
\* special-rules course title: once its first instance starts at 10:00,
\* 11:00 or 12:00, every later candidate slot inside the special window is
\* less than 3 hours away from the most recent instance's start and is
\* rejected.
C34_OneSpecialInstance ==
  /\ \A c \in 1..Len(courses) :
       IsFinancialIntelligence(courses[c].title) =>
         Cardinality(InstancesHeld(courses[c].title)) <= 1
  /\ Searched /\ IsFinancialIntelligence(courses[courseIdx].title)
       /\ HistoryAtCall # << >> =>
         /\ HistoryAtCall[Len(HistoryAtCall)].startTime \in {<< 10, 0 >>, << 11, 0 >>, << 12, 0 >>}
         /\ \A i \in 1..Len(CandidateSlots) :
              PassesSpecialWindow(CandidateSlots[i]) => ~PassesThreeHours(CandidateSlots[i])
         /\ suitableSlot = << >>

\* A later candidate date of a special-rules title that has its instance:
\* the date has free slots inside the special window, and none is taken.
C34_Witness ==
  /\ Searched
  /\ IsFinancialIntelligence(courses[courseIdx].title)
  /\ HistoryAtCall # << >>
  /\ \E i \in 1..Len(CandidateSlots) :
       IsFree(CandidateSlots[i]) /\ PassesSpecialWindow(CandidateSlots[i])
  /\ suitableSlot = << >>

\* The sessions of the returned list that belong to the courses before the
\* last one of the list.
SessionsOfPrefix ==
  LET OfPrefix(session) ==
        \E i \in 1..(Len(courses) - 1) : courses[i].title = session.courseName
  IN  SelectSeq(Returned, OfPrefix)

\* C35: courses are processed strictly in input order and an earlier course
\* is unaffected by later ones: for every course list L and every prefix P
\* of L, the sessions booked for the courses of P in a run on L are exactly
\* the sessions booked in a run on P alone.
C35_PrefixUnaffected ==
  pc = "done" /\ firstResult # Null =>
    SessionsOfPrefix = firstResult[1].scheduledSessions

\* The run on the longer list has returned; the added course is not of the
\* special kind, it has sessions, and some slot it would have taken alone is
\* held by a course of the prefix.
C35_Witness ==
  /\ pc = "done"
  /\ firstResult # Null
  /\ firstResult[1].scheduledSessions # << >>
  /\ ~IsFinancialIntelligence(courses[Len(courses)].title)
  /\ Len(Returned) > Len(firstResult[1].scheduledSessions)
  /\ \E n \in 1..Len(Returned) :
       /\ Returned[n].courseName # courses[Len(courses)].title
       /\ Returned[n].date = quarterDates[1]
       /\ Returned[n].startTime = availabilityGrid.get[FormatDate(quarterDates[1])].slots[1].start

\* The date exactly 7 days after the last session the attempt has booked.
WeekAfterLast == sessions[Len(sessions)].date + 7

\* The date is in the grid and has a free slot with the chosen start time.
HasFreeSlotAt(date) ==
  /\ FormatDate(date) \in DOMAIN availabilityGrid.get
  /\ \E i \in 1..Len(availabilityGrid.get[FormatDate(date)].slots) :
       /\ availabilityGrid.get[FormatDate(date)].slots[i].start = suitableSlot[1].startTime
       /\ availabilityGrid.get[FormatDate(date)].slots[i].available

\* The week after the last session is a gap: outside the quarter, a full-day
\* exclusion date, or without a free slot at the chosen start time.
GapAfterLast ==
  \/ WeekAfterLast \notin DatesIn(quarterDates)
  \/ FullDayExclusion(WeekAfterLast)
  \/ ~HasFreeSlotAt(WeekAfterLast)

\* Booking session k >= 2: at a gap the attempt ends with nothing booked and
\* the grid as it was when the attempt began; otherwise the session is
\* booked exactly 7 days after session k - 1, at the chosen start time.
WeeklyStep ==
  pc = "book" /\ sessions # << >> =>
    IF GapAfterLast
    THEN /\ pc' = "returned"
         /\ scheduled' = << >>
         /\ sessions' = sessions
         /\ availabilityGrid' = atCall.grid
    ELSE /\ Len(sessions') = Len(sessions) + 1
         /\ sessions'[Len(sessions')].date = WeekAfterLast
         /\ sessions'[Len(sessions')].startTime = suitableSlot[1].startTime
         /\ sessions'[Len(sessions')].sessionNumber = Len(sessions) + 1

\* C36: a weekly run is never shifted past a gap: if, for some session k of
\* an attempt, the date exactly 7 days after session k-1 is outside the
\* quarter, is a full-day exclusion date, or lacks a free slot with the
\* chosen start time (for example because a partial restriction truncated
\* it), the whole attempt is rolled back instead of session k being placed
\* in a later week or at another time.
C36_NoShiftPastGap == [][WeeklyStep]_vars

\* An attempt was rolled back at a date that a partial restriction cut
\* before the chosen start time, although the week after has the slot free.
C36_Witness ==
  /\ pc = "returned"
  /\ scheduled = << >>
  /\ sessions # << >>
  /\ WeekAfterLast \in DatesIn(quarterDates)
  /\ CutoffMinutes(WeekAfterLast) > 0
  /\ MinutesOf(suitableSlot[1].startTime) >= CutoffMinutes(WeekAfterLast)
  /\ HasFreeSlotAt(WeekAfterLast + 7)

\* The sessions of the instances the run has kept: those of the courses
\* already processed and those of the current course's booked instances.
Committed == scheduledSessions \o courseSessions

\* No step of a run, from the seeding of the grid to the return, changes a
\* slot that is occupied by a session of a kept instance: it stays occupied,
\* with the same occupant.
CommittedSlotsStay ==
  availabilityGrid' # availabilityGrid /\ pc \notin {"generateSchedule", "done"} =>
    \A key \in DOMAIN availabilityGrid.get :
      availabilityGrid'.get[key] # availabilityGrid.get[key] =>
        \A i \in 1..Len(availabilityGrid.get[key].slots) :
          LET slot == availabilityGrid.get[key].slots[i]
          IN  /\ ~slot.available
              /\ \E n \in 1..Len(Committed) :
                   /\ Committed[n].date = availabilityGrid.get[key].date
                   /\ Committed[n].startTime = slot.start
              => availabilityGrid'.get[key].slots[i] = slot

\* C37: a rollback releases only slots booked by the attempt being rolled
\* back: a slot occupied by a previously committed instance, of the same
\* course or of another course, stays occupied with the same occupant
\* through every later attempt and rollback until the end of the run.
C37_CommittedSlotsKept ==
  /\ [][CommittedSlotsStay]_vars
  /\ [](pc \in {"returned", "done"} =>
          \A n \in 1..Len(Committed) :
            \E day \in {availabilityGrid.get[FormatDate(Committed[n].date)]} :
              \E i \in 1..Len(day.slots) :
                /\ day.slots[i].start = Committed[n].startTime
                /\ ~day.slots[i].available
                /\ day.slots[i].session =
                     << [ course |-> Committed[n].courseName,
                          sessionNumber |-> Committed[n].sessionNumber ] >>)

\* An attempt that had booked a session was rolled back because a kept
\* instance holds the slot of the next week, on a date of its own first
\* session where an instance of another course is kept too.
C37_Witness ==
  /\ pc = "returned"
  /\ scheduled = << >>
  /\ sessions # << >>
  /\ SlotsWithStart # {}
  /\ FreeSlotsWithStart = {}
  /\ courseSessions # << >>
  /\ \E n \in 1..Len(scheduledSessions) :
       scheduledSessions[n].date \in {sessions[m].date : m \in 1..Len(sessions)}

\* The first sessions of the instances booked for the first record, in
\* the order they were booked, while the second record is processed.
FirstRecordInstances ==
  LET IsFirstSession(session) == session.sessionNumber = 1
  IN  SelectSeq(scheduledSessions, IsFirstSession)

\* The second record's first instance has just been booked, after the first
\* record booked instances.
SecondRecordPlaced ==
  /\ pc = "returned"
  /\ Len(courses) = 2
  /\ courses[1].title = courses[2].title
  /\ courseIdx = 2
  /\ courseSessions = << >>
  /\ Len(scheduled) > 0
  /\ FirstRecordInstances # << >>

\* C38: history is keyed by course title, not by course record: when two
\* records of the course list have the same title, the instances booked for
\* the first record constrain the second, so the second record's first
\* placement must differ by at least 3 hours from, and for a non-special
\* course fall on a different weekday than, the last instance booked for
\* the first record.
C38_HistoryKeyedByTitle ==
  /\ pc \in {"cadenceLoop", "attempt", "book", "returned"} /\ courseIdx = 2
       /\ Len(courses) = 2 /\ courses[1].title = courses[2].title
       /\ courseSessions = << >> =>
         Len(EntriesOf(courseHistory, courses[2].title)) = Len(FirstRecordInstances)
  /\ SecondRecordPlaced =>
       LET last == FirstRecordInstances[Len(FirstRecordInstances)]
       IN  /\ Abs(MinutesOf(scheduled[1].startTime) - MinutesOf(last.startTime)) >= 180
           /\ ~IsFinancialIntelligence(courses[2].title) =>
                GetDay(scheduled[1].date) # GetDay(last.date)

\* The second record's first instance took a later slot of its date,
\* because an earlier free slot of the date was too close to the last
\* instance of the first record.
C38_Witness ==
  /\ SecondRecordPlaced
  /\ courses[1] # courses[2]
  /\ \E i \in 1..Len(CandidateSlots) :
       /\ IsFree(CandidateSlots[i])
       /\ MinutesOf(CandidateSlots[i].start) < MinutesOf(scheduled[1].startTime)
       /\ Abs(MinutesOf(CandidateSlots[i].start)
                - MinutesOf(FirstRecordInstances[Len(FirstRecordInstances)].startTime)) < 180

\* The calendar grid generateSchedule returned, and its cells as (date key,
\* time-slot label) pairs.
CalendarGrid == result[1].calendarData.grid

CalendarCells ==
  UNION {{<< dateKey, label >> : label \in DOMAIN CalendarGrid[dateKey]} :
           dateKey \in DOMAIN CalendarGrid}

\* C39: in the calendar-grid view built from the session list, every
\* (date, time-slot) cell that exists holds exactly one {course,
\* sessionNumber} entry, the number of cells equals the number of sessions,
\* and each entry equals the occupant recorded on the corresponding grid
\* slot.
C39_CalendarCells ==
  pc = "done" =>
    /\ Cardinality(CalendarCells) = Len(Returned)
    /\ \A cell \in CalendarCells :
         /\ Len(CalendarGrid[cell[1]][cell[2]]) = 1
         /\ cell[1] \in DOMAIN availabilityGrid.get
         /\ \E i \in 1..Len(availabilityGrid.get[cell[1]].slots) :
              /\ availabilityGrid.get[cell[1]].slots[i].start = cell[2][1]
              /\ availabilityGrid.get[cell[1]].slots[i].end = cell[2][2]
              /\ availabilityGrid.get[cell[1]].slots[i].session
                   = << CalendarGrid[cell[1]][cell[2]][1] >>

\* The calendar of a finished run has a date with cells of two courses.
C39_Witness ==
  /\ pc = "done"
  /\ \E dateKey \in DOMAIN CalendarGrid :
       \E a, b \in DOMAIN CalendarGrid[dateKey] :
         CalendarGrid[dateKey][a][1].course # CalendarGrid[dateKey][b][1].course

=============================================================================
